---- MODULE Spec2Model ----
(***************************************************************************)
(* Model of the Tsukimi edge-node runtime (Izu-lab/tsukimi-speaker-rust).  *)
(*                                                                         *)
(* The runtime is a set of concurrent tasks wired by channels:             *)
(*   scanner --bt_rx--> forwarder --bcast--> {session, interaction, audio} *)
(*   session --system_enabled--> {forwarder, audio}                        *)
(*   session/interaction --se--> audio,  session --time_sync--> audio      *)
(*                                                                         *)
(* Broadcast channels are modelled as the log of everything sent plus one  *)
(* read position per receiver; mpsc channels as bounded sequences.         *)
(* Times are in milliseconds; playback rates are in 1/10000.               *)
(***************************************************************************)
EXTENDS Integers, Sequences, FiniteSets, TLC

VARIABLES
    \* ---- shared state (main.rs:77-85)
    sound_map,                  \* address -> asset name
    my_address,                 \* None or the adapter address
    current_points,             \* i32
    \* ---- channels (main.rs:88-121)
    bt_rx,                      \* mpsc scanner -> forwarder
    bcast,                      \* broadcast log forwarder -> receivers
    system_enabled_ch,          \* broadcast log of SystemEnabledState
    shutdown_ch,                \* number of () held by the shutdown mpsc
    time_sync_rx,               \* mpsc of server times
    se_rx,                      \* mpsc of SePlayRequest file names
    \* ---- forwarding task (main.rs:128-175)
    forward_system_enabled_rx,  \* read position in system_enabled_ch
    fwd_system_enabled,         \* the task's local system_enabled
    fwd_pc,                     \* "select" | "send_shutdown"
    \* ---- session client (connect_main.rs:146-168)
    location_place_types,       \* address -> place_type
    points_initialized,
    session_pc,                 \* "idle" | "start" | "recv" | "send_se_point" | "done"
    last_location_update,       \* history: <<addresses of the last LocationUpdate>>
    time_updates,               \* history: elapsed_nanoseconds of the TimeUpdates received
    self_point_update_seen,     \* history: a PointUpdate for this node has been received
    \* ---- interaction task (connect_main.rs:179-265)
    interaction_pc,             \* "idle" | "recv" | "send_se"
    interaction_rx,             \* read position in bcast
    last_rssi_map,              \* address -> previous rssi
    last_interaction_time,      \* place_type -> instant of the last interaction
    proximity_sent,             \* history: the proximity SE requests and their instants
    interaction_events,         \* history: the SE requests and HTTP POSTs of the task, in order
    \* ---- audio engine (audio_main.rs:189-247)
    audio_pc,                   \* "running" | "exited" | "failed" | "panicked"
    audio_system_enabled_rx,    \* read position in system_enabled_ch
    audio_rx,                   \* read position in bcast
    switch_rx,                  \* mpsc worker -> loop, of PipelineState
    system_enabled,
    playback_state,             \* "WaitingForFirstSync" | "Playing"
    current_sound,
    detected_devices,           \* address -> DeviceInfo
    last_cleanup,
    active,                     \* Option<PipelineState>
    standby,                    \* Option<PipelineState>
    se_pipeline,                \* Option of the SE pipeline
    is_se_playing,
    should_play_activation_se,
    playback_start_time,
    initial_server_time_ns,
    last_server_time_ns,        \* Option<u64>
    switching,
    last_switch_end,            \* Option<Instant>
    desired_sound,              \* history: the desired_sound of the last selection
    activation_se_started,      \* history: activation SEs started since the last disable
    se_live,                    \* history: SE pipelines created and not yet set to Null
    last_best_device,           \* history: the best_device of the last selection
    dropped_live,               \* history: the handles the last iteration of the loop, or
                                \* the end of a worker, dropped while not in the Null state
    seeked_to,                  \* history: Option of the position the last iteration of
                                \* the loop seeked the active pipeline to
    \* ---- switch worker thread (audio_main.rs:717-801)
    worker_pc,                  \* "idle" | "build" | "pause" | "play" | "buffer"
    worker_request,             \* Option of the requested sound
    worker_next,                \* Option<PipelineState>: the worker's `next`
    \* ---- scanner (bluetooth_main.rs:178-310)
    device_cache,               \* address -> DeviceCache { last_sent, last_rssi }
    cache_cleanup_at,           \* the instant the sleep of the cache cleanup task ends
    last_emitted,               \* history: address -> (instant, rssi) of its last emission
    \* ---- uplink stream of the session client (connect_main.rs:267-304)
    uplink_rx,                  \* read position of the stream's receiver in bcast
    uplink_items,               \* the chunk being collected by chunks_timeout
    uplink_deadline,            \* the instant the chunk being collected times out
    uplink_request,             \* Option of the last StreamDeviceInfoRequest sent
    \* ---- main task (main.rs:213-227)
    main_pc,                    \* "await_audio" | "finished"
    \* ---- connect_main and the time service client (connect_main.rs:495-596)
    connect_pc,                 \* "connect" | "sleep" | "join" | "done"
    connect_retry_at,           \* the instant the sleep before a retry ends
    time_service_pc,            \* "idle" | "start" | "recv" | "done"
    \* ---- local clock
    now

sharedVars == <<sound_map, my_address, current_points>>
chanVars == <<bt_rx, bcast, system_enabled_ch, shutdown_ch, time_sync_rx, se_rx>>
fwdVars == <<forward_system_enabled_rx, fwd_system_enabled, fwd_pc>>
sessionVars == <<location_place_types, points_initialized, session_pc, last_location_update,
                 self_point_update_seen, time_updates>>
interactionVars == <<interaction_pc, interaction_rx, last_rssi_map, last_interaction_time,
                     proximity_sent, interaction_events>>
audioLocals == <<system_enabled, playback_state, current_sound, detected_devices, last_cleanup,
                 active, standby, se_pipeline, is_se_playing, should_play_activation_se,
                 playback_start_time, initial_server_time_ns, last_server_time_ns, switching,
                 last_switch_end, desired_sound, activation_se_started, se_live,
                 last_best_device>>
audioVars == <<audio_pc, audio_system_enabled_rx, audio_rx, switch_rx, audioLocals,
               dropped_live, seeked_to>>
workerVars == <<worker_pc, worker_request, worker_next>>
mainVars == <<main_pc>>
connectVars == <<connect_pc, connect_retry_at, time_service_pc>>
scannerVars == <<device_cache, cache_cleanup_at, last_emitted>>
uplinkVars == <<uplink_rx, uplink_items, uplink_deadline, uplink_request>>
taskVars == <<mainVars, connectVars, scannerVars, uplinkVars>>

None == "None"

\* ---------------------------------------------------------------------------
\* Bounds of the model
\* ---------------------------------------------------------------------------
MaxPublished == 3      \* SystemEnabledState messages ever published
MaxBtQueue == 1        \* observations waiting in bt_rx
MaxForwarded == 2      \* observations ever forwarded to bcast
MaxMoonlights == 2     \* entries in one MoonlightUpdate
MaxLocations == 2      \* entries in one LocationUpdate
MaxInteractionTime == 10000   \* the clock of SpecInteraction stops here
MaxTimeSyncQueue == 1  \* server times waiting in time_sync_rx
MaxDriftTime == 500    \* the clock of SpecDrift stops here
MaxPruneTime == 5500   \* the clock of SpecPrune stops here
MaxConnectTime == 10000   \* the clock of SpecConnect stops here
TrackDurationMs == 800    \* the duration every track reports
ScanTickMs == 15          \* the small step of the clock of SpecScanner
ScanFineTime == 30        \* the small steps of the clock of SpecScanner stop here
MaxScanTime == 60030      \* the clock of SpecScanner stops here
MaxUplinkForwarded == 11  \* observations ever forwarded to bcast in SpecUplink
MaxUplinkTime == 50       \* the clock of SpecUplink stops here
TableTickMs == 2500       \* the step of the clock of SpecTable
MaxTableTime == 7500      \* the clock of SpecTable stops here
MaxTimeUpdates == 2       \* TimeUpdate events ever received on the downlink

\* ---------------------------------------------------------------------------
\* Program constants
\* ---------------------------------------------------------------------------
ShutdownCapacity == 1  \* mpsc::channel::<()>(1)
SeCapacity == 32       \* mpsc::channel::<SePlayRequest>(32)
InteractionCooldownMs == 10000
INTERACTION_RSSI_THRESHOLD == -45
RSSI_THRESHOLD == -70
I16Min == -32768
DEDUP_INTERVAL_MS == 25            \* Duration::from_millis(25)
MIN_RSSI_DIFF == 1
CACHE_CLEANUP_INTERVAL_MS == 30000 \* Duration::from_secs(30)
CACHE_RETENTION_MS == 60000        \* Duration::from_secs(60)
CHUNK_SIZE == 10                   \* chunks_timeout(10, ..)
CHUNK_TIMEOUT_MS == 50             \* Duration::from_millis(50)

InitialAddress == "00:11:22:33:44:55"
SelfAddress == "ME"
BeaconAddresses == {"B1", "B2"}
Addresses == BeaconAddresses \cup {InitialAddress, SelfAddress}
Rssis == {-80, -50, -40}

\* DeviceInfo { address, rssi, last_seen }
DeviceInfo(a, r, t) == [address |-> a, rssi |-> r, last_seen |-> t]

\* SystemEnabledState { enabled, target_device_id }
SystemEnabledState(e, id) == [enabled |-> e, target_device_id |-> id]

\* One entry of a MoonlightUpdate: { device, address, enabled }
MoonlightEntries == [device : {SelfAddress, "X"}, address : {SelfAddress, "X"}, enabled : BOOLEAN]

SeqsUpTo(S, n) == UNION {[1..k -> S] : k \in 0..n}

\* ---------------------------------------------------------------------------
\* Scanner (bluetooth_main.rs)
\* ---------------------------------------------------------------------------

\* The scanner learns the adapter address and stores it before scanning.
ScannerSetAddress ==
    /\ main_pc = "await_audio"
    /\ my_address = None
    /\ my_address' = SelfAddress
    /\ UNCHANGED <<sound_map, current_points, chanVars, fwdVars, sessionVars,
                   interactionVars, audioVars, workerVars, now, taskVars>>

Abs(x) == IF x < 0 THEN -x ELSE x

\* DeviceCache { last_sent, last_rssi }
DeviceCache(t, r) == [last_sent |-> t, last_rssi |-> r]

\* The send decision of on_event_receive for an advertisement of address a
\* with rssi r at instant t: a new address is always sent; a cached one when
\* 25 ms have passed since last_sent or the rssi differs by at least 1.
should_send_Always(cache, a, r, t) == TRUE
should_send(cache, a, r, t) ==
    IF a \in DOMAIN cache
    THEN \/ t - cache[a].last_sent >= DEDUP_INTERVAL_MS
         \/ Abs(r - cache[a].last_rssi) >= MIN_RSSI_DIFF
    ELSE TRUE

\* on_event_receive: an advertisement of a registered address that passes the
\* send decision is recorded in the cache and sent on bt_rx; every other
\* advertisement changes nothing. sender.send().await waits while the channel
\* is full.
ScannerSend(a, r) ==
    /\ main_pc = "await_audio"
    /\ my_address # None
    /\ a \in DOMAIN sound_map
    /\ should_send(device_cache, a, r, now)
    /\ Len(bt_rx) < MaxBtQueue
    /\ device_cache' = (a :> DeviceCache(now, r)) @@ device_cache
    /\ last_emitted' = (a :> DeviceCache(now, r)) @@ last_emitted
    /\ bt_rx' = Append(bt_rx, DeviceInfo(a, r, now))
    /\ UNCHANGED <<sharedVars, bcast, system_enabled_ch, shutdown_ch, time_sync_rx, se_rx,
                   fwdVars, sessionVars, interactionVars, audioVars, workerVars, now,
                   mainVars, connectVars, cache_cleanup_at,
                   uplinkVars>>

\* The cache cleanup task: every 30 s it drops the entries sent 60 s ago or
\* earlier.
RetainCache(cache, t) ==
    [a \in {x \in DOMAIN cache : t - cache[x].last_sent < CACHE_RETENTION_MS} |-> cache[a]]

CacheCleanup ==
    /\ main_pc = "await_audio"
    /\ my_address # None
    /\ now >= cache_cleanup_at
    /\ device_cache' = RetainCache(device_cache, now)
    /\ cache_cleanup_at' = now + CACHE_CLEANUP_INTERVAL_MS
    /\ UNCHANGED <<sharedVars, chanVars, fwdVars, sessionVars, interactionVars, audioVars,
                   workerVars, now, mainVars, connectVars, last_emitted,
                   uplinkVars>>

\* ---------------------------------------------------------------------------
\* Session client: MoonlightUpdate (connect_main.rs)
\* ---------------------------------------------------------------------------

\* Index of the first entry naming this node, 0 if there is none.
FindMoonlight_First(moonlights, device_id) == IF moonlights = <<>> THEN 0 ELSE 1
FindMoonlight(moonlights, device_id) ==
    LET hits == {i \in 1..Len(moonlights) :
                    moonlights[i].device = device_id \/ moonlights[i].address = device_id}
    IN IF hits = {} THEN 0 ELSE CHOOSE i \in hits : \A j \in hits : i <= j

MoonlightUpdate(moonlights) ==
    /\ main_pc = "await_audio"
    /\ session_pc = "recv"
    /\ Len(system_enabled_ch) < MaxPublished
    /\ LET i == IF my_address = None THEN 0 ELSE FindMoonlight(moonlights, my_address)
       IN system_enabled_ch' =
            IF i = 0 THEN system_enabled_ch
            ELSE Append(system_enabled_ch, SystemEnabledState(moonlights[i].enabled, my_address))
    /\ UNCHANGED <<sharedVars, bt_rx, bcast, shutdown_ch, time_sync_rx, se_rx, fwdVars,
                   sessionVars, interactionVars, audioVars, workerVars, now, taskVars>>

\* ---------------------------------------------------------------------------
\* Session client: asset names (connect_main.rs:61-101)
\* ---------------------------------------------------------------------------

\* An asset name "tsukimi-<base>_<n>.mp3" is the record SoundFile(base, <<n>>);
\* "tsukimi-<base>.mp3", with no points suffix, is SoundFile(base, <<>>).
SoundFile(base, suffix) == [base |-> base, suffix |-> suffix]

InitialSound == SoundFile("main", <<>>)

get_base_location_type_from_place_type(place_type) ==
    CASE place_type = "projection_mapping" -> "main"
      [] place_type = "buddhas_bowl" -> "hotoke"
      [] place_type = "jeweled_branch" -> "eda"
      [] place_type = "fire_rat_robe" -> "nezumi"
      [] place_type = "dragons_jewel" -> "ryu"
      [] place_type = "swallows_cowry" -> "kai"
      [] OTHER -> "main"

get_sound_file_from_place_type_and_points(place_type, points) ==
    LET base_type == get_base_location_type_from_place_type(place_type)
        effective_points == IF points = 0 THEN 1 ELSE points
    IN SoundFile(base_type, <<effective_points>>)

get_se_file_from_place_type(place_type) ==
    CASE place_type = "fire_rat_robe" -> "se-nezumi.mp3"
      [] place_type = "buddhas_bowl" -> "se-hotoke.mp3"
      [] OTHER -> None

is_interactive_place_type(place_type) == place_type \in {"fire_rat_robe", "buddhas_bowl"}

\* ---------------------------------------------------------------------------
\* Session client: LocationUpdate and PointUpdate (connect_main.rs:318-430)
\* ---------------------------------------------------------------------------

\* HashMap::insert
MapInsert_Toggle(map, k, v) ==
    IF k \in DOMAIN map THEN [x \in DOMAIN map \ {k} |-> map[x]]
    ELSE [x \in DOMAIN map \cup {k} |-> IF x = k THEN v ELSE map[x]]
MapInsert(map, k, v) == [x \in DOMAIN map \cup {k} |-> IF x = k THEN v ELSE map[x]]

\* HashMap::retain(|addr, _| keep.contains(addr))
MapRetain(map, keep) == [x \in DOMAIN map \cap keep |-> map[x]]

\* The `for loc in &location_update.locations` loop: every entry is inserted
\* into sound_map (resolved with the current points) and location_place_types.
RECURSIVE InsertLocations(_, _, _, _)
InsertLocations(sounds, types, locations, points) ==
    IF locations = <<>>
    THEN [sounds |-> sounds, types |-> types]
    ELSE LET loc == Head(locations)
             sound_file == get_sound_file_from_place_type_and_points(loc.place_type, points)
         IN InsertLocations(MapInsert(sounds, loc.address, sound_file),
                            MapInsert(types, loc.address, loc.place_type),
                            Tail(locations), points)

\* Variant: no entry of sound_map is dropped.
RetainSoundMap_KeepAll(sounds, new_addresses) == sounds

\* sound_map.retain(|addr, _| new_addresses.contains(addr))
RetainSoundMap(sounds, new_addresses) == MapRetain(sounds, new_addresses)

\* location_types.retain(|addr, _| new_addresses.contains(addr))
RetainLocationTypes(types, new_addresses) == MapRetain(types, new_addresses)

\* Lines 320-353: what one LocationUpdate makes of sound_map and
\* location_place_types.
ApplyLocationUpdate(sounds, types, locations, points) ==
    LET new_addresses == {locations[i].address : i \in 1..Len(locations)}
        inserted == InsertLocations(sounds, types, locations, points)
    IN [sounds |-> RetainSoundMap(inserted.sounds, new_addresses),
        types |-> RetainLocationTypes(inserted.types, new_addresses)]

LocationUpdate(locations) ==
    /\ main_pc = "await_audio"
    /\ session_pc = "recv"
    /\ LET new_addresses == {locations[i].address : i \in 1..Len(locations)}
           applied == ApplyLocationUpdate(sound_map, location_place_types, locations,
                                          current_points)
       IN /\ sound_map' = applied.sounds
          /\ location_place_types' = applied.types
          /\ last_location_update' = <<new_addresses>>
    /\ UNCHANGED <<my_address, current_points, chanVars, fwdVars, points_initialized,
                   session_pc, self_point_update_seen, time_updates, interactionVars, audioVars, workerVars,
                   now, taskVars>>

\* The rebuild of sound_map after a points change: keys stay, every value
\* whose address has a cached place_type is resolved again.
RebuildSoundMap(sounds, types, new_points) ==
    [addr \in DOMAIN sounds |->
        IF addr \in DOMAIN types
        THEN get_sound_file_from_place_type_and_points(types[addr], new_points)
        ELSE sounds[addr]]

\* se_tx.send(request).await completes at once while the channel has room.
SeSendReady(queue) == Len(queue) < SeCapacity

\* Variant: every update is taken for this node's.
is_my_address_Always(my_addr, user_id) == TRUE

\* my_address_guard.as_ref().map(|addr| *addr == point_update.user_id).unwrap_or(false)
is_my_address(my_addr, user_id) == my_addr # None /\ my_addr = user_id

\* `if old_points != new_points`
points_changed_Always(old_points, new_points) == TRUE
points_changed(old_points, new_points) == old_points # new_points

PointUpdate(user_id, new_points) ==
    /\ main_pc = "await_audio"
    /\ session_pc = "recv"
    /\ LET is_mine == is_my_address(my_address, user_id)
           old_points == current_points
       IN IF is_mine /\ points_changed(old_points, new_points)
          THEN /\ current_points' = new_points
               /\ sound_map' = RebuildSoundMap(sound_map, location_place_types, new_points)
               /\ points_initialized' = TRUE
               /\ IF points_initialized /\ new_points > old_points
                  THEN IF SeSendReady(se_rx)
                       THEN se_rx' = Append(se_rx, "se-point.mp3") /\ UNCHANGED session_pc
                       ELSE session_pc' = "send_se_point" /\ UNCHANGED se_rx
                  ELSE UNCHANGED <<se_rx, session_pc>>
          ELSE UNCHANGED <<current_points, sound_map, points_initialized, se_rx, session_pc>>
    /\ self_point_update_seen' = (self_point_update_seen \/ is_my_address(my_address, user_id))
    /\ UNCHANGED <<my_address, bt_rx, bcast, system_enabled_ch, shutdown_ch, time_sync_rx,
                   fwdVars, location_place_types, last_location_update, time_updates, interactionVars,
                   audioVars, workerVars, now, taskVars>>

\* se_tx.send(se_request).await of the point gain completes once the channel
\* has room, and the downlink loop reads on.
PointSeSendCompletes ==
    /\ main_pc = "await_audio"
    /\ session_pc = "send_se_point"
    /\ SeSendReady(se_rx)
    /\ se_rx' = Append(se_rx, "se-point.mp3")
    /\ session_pc' = "recv"
    /\ UNCHANGED <<sharedVars, bt_rx, bcast, system_enabled_ch, shutdown_ch, time_sync_rx,
                   fwdVars, location_place_types, points_initialized, last_location_update,
                   self_point_update_seen, time_updates, interactionVars, audioVars,
                   workerVars, now, taskVars>>

\* ---------------------------------------------------------------------------
\* Interaction task (connect_main.rs:36-59, 179-265)
\* ---------------------------------------------------------------------------

\* Variant: a cooldown of half the length.
InCooldown_Half(last_time, t) == t - last_time < InteractionCooldownMs \div 2

\* now.duration_since(last_time) < self.interaction_cooldown
InCooldown(last_time, t) == t - last_time < InteractionCooldownMs

\* InteractionState::can_interact: the answer and the map afterwards.
can_interact(times, place_type, t) ==
    IF place_type \in DOMAIN times /\ InCooldown(times[place_type], t)
    THEN [ok |-> FALSE, times |-> times]
    ELSE [ok |-> TRUE, times |-> MapInsert(times, place_type, t)]

\* Variant: the RSSI before this observation is not looked at.
crossed_threshold_NoPrev(prev_rssi, current_rssi) == current_rssi > INTERACTION_RSSI_THRESHOLD

\* prev_rssi <= INTERACTION_RSSI_THRESHOLD && current_rssi > INTERACTION_RSSI_THRESHOLD
crossed_threshold(prev_rssi, current_rssi) ==
    prev_rssi <= INTERACTION_RSSI_THRESHOLD /\ current_rssi > INTERACTION_RSSI_THRESHOLD

\* Lines 225-243: se_tx.send(se_request).await, then send_interaction_request
\* if this node's address is known.  seen_before tells whether last_rssi_map
\* held the address.
InteractionEvents(device_info, seen_before, prev_rssi, place_type, se_file, user_id_opt) ==
    <<[kind |-> "se", address |-> device_info.address, rssi |-> device_info.rssi,
       seen_before |-> seen_before, prev_rssi |-> prev_rssi, place_type |-> place_type,
       file |-> se_file]>>
    \o (IF user_id_opt # None
        THEN <<[kind |-> "post", address |-> device_info.address, rssi |-> device_info.rssi,
                seen_before |-> seen_before, prev_rssi |-> prev_rssi,
                place_type |-> place_type, file |-> None]>>
        ELSE <<>>)

\* One iteration of the task's loop on Ok(device_info).  The HTTP POST that
\* follows the SE request changes no state of this program.
InteractionRecv ==
    /\ main_pc = "await_audio"
    /\ interaction_pc = "recv"
    /\ interaction_rx < Len(bcast)
    /\ LET device_info == bcast[interaction_rx + 1]
           prev_rssi == IF device_info.address \in DOMAIN last_rssi_map
                        THEN last_rssi_map[device_info.address] ELSE I16Min
           current_rssi == device_info.rssi
           crossed == crossed_threshold(prev_rssi, current_rssi)
           place_type == IF device_info.address \in DOMAIN location_place_types
                         THEN location_place_types[device_info.address] ELSE None
           asked == crossed /\ place_type # None /\ is_interactive_place_type(place_type)
           answer == can_interact(last_interaction_time, place_type, now)
           se_file == get_se_file_from_place_type(place_type)
       IN /\ interaction_rx' = interaction_rx + 1
          /\ last_rssi_map' = MapInsert(last_rssi_map, device_info.address, current_rssi)
          /\ last_interaction_time' = IF asked THEN answer.times ELSE last_interaction_time
          /\ IF asked /\ answer.ok /\ se_file # None
             THEN IF SeSendReady(se_rx)
                  THEN /\ se_rx' = Append(se_rx, se_file)
                       /\ proximity_sent' = Append(proximity_sent,
                                                   [place_type |-> place_type,
                                                    address |-> device_info.address,
                                                    at |-> now])
                       /\ interaction_events' =
                             interaction_events \o
                             InteractionEvents(device_info,
                                               device_info.address \in DOMAIN last_rssi_map,
                                               prev_rssi, place_type, se_file, my_address)
                       /\ UNCHANGED interaction_pc
                  ELSE /\ interaction_pc' = "send_se"
                       /\ UNCHANGED <<se_rx, proximity_sent, interaction_events>>
             ELSE UNCHANGED <<proximity_sent, interaction_events, se_rx, interaction_pc>>
    /\ UNCHANGED <<sharedVars, bt_rx, bcast, system_enabled_ch, shutdown_ch, time_sync_rx,
                   fwdVars, sessionVars, audioVars, workerVars, now, taskVars>>

\* ---------------------------------------------------------------------------
\* Local monotonic clock
\* ---------------------------------------------------------------------------
Tick(d, limit) ==
    /\ now + d <= limit
    /\ now' = now + d
    /\ UNCHANGED <<sharedVars, chanVars, fwdVars, sessionVars, interactionVars, audioVars,
                   workerVars, taskVars>>

\* ---------------------------------------------------------------------------
\* Forwarding task (main.rs:128-175)
\* ---------------------------------------------------------------------------

\* shutdown_tx.send(()).await completes at once while the channel has room.
\* Its receiver _shutdown_rx stays alive in main and is never polled, so a
\* send on the full channel never completes.
ShutdownSendReady(held) == held < ShutdownCapacity

\* The `while let Ok(state) = try_recv()` loop of the bt_rx branch, started at
\* read position pos: every message sets system_enabled; a disable sends on the
\* shutdown channel and the loop stops there for ever if that send cannot complete.
RECURSIVE DrainSystemEnabled(_, _, _, _)
DrainSystemEnabled(log, pos, enabled, held) ==
    IF pos >= Len(log)
    THEN [pos |-> pos, enabled |-> enabled, held |-> held, blocked |-> FALSE]
    ELSE LET state == log[pos + 1]
         IN IF state.enabled
            THEN DrainSystemEnabled(log, pos + 1, TRUE, held)
            ELSE IF ShutdownSendReady(held)
                 THEN DrainSystemEnabled(log, pos + 1, FALSE, held + 1)
                 ELSE [pos |-> pos + 1, enabled |-> FALSE, held |-> held, blocked |-> TRUE]

\* bcast_tx.send(device_info)
BroadcastSend(device_info) == bcast' = Append(bcast, device_info)

\* select! branch `device_info_opt = bt_rx.recv()`
ForwardDeviceInfo(limit) ==
    /\ main_pc = "await_audio"
    /\ fwd_pc = "select"
    /\ bt_rx # <<>>
    /\ Len(bcast) < limit
    /\ LET device_info == Head(bt_rx)
           d == DrainSystemEnabled(system_enabled_ch, forward_system_enabled_rx,
                                   fwd_system_enabled, shutdown_ch)
       IN /\ bt_rx' = Tail(bt_rx)
          /\ forward_system_enabled_rx' = d.pos
          /\ fwd_system_enabled' = d.enabled
          /\ shutdown_ch' = d.held
          /\ fwd_pc' = IF d.blocked THEN "send_shutdown" ELSE "select"
          /\ IF ~d.blocked /\ d.enabled
             THEN BroadcastSend(device_info)
             ELSE UNCHANGED bcast
    /\ UNCHANGED <<sharedVars, system_enabled_ch, time_sync_rx, se_rx, sessionVars,
                   interactionVars, audioVars, workerVars, now, taskVars>>

\* select! branch `_ = forward_system_enabled_rx.recv()`: recv() takes one
\* message and the branch discards it; the body then looks at the next one,
\* if any, with try_recv().
ForwardSystemEnabled ==
    /\ main_pc = "await_audio"
    /\ fwd_pc = "select"
    /\ forward_system_enabled_rx < Len(system_enabled_ch)
    /\ LET after_recv == forward_system_enabled_rx + 1
       IN IF after_recv < Len(system_enabled_ch)
          THEN LET state == system_enabled_ch[after_recv + 1]
               IN /\ forward_system_enabled_rx' = after_recv + 1
                  /\ fwd_system_enabled' = state.enabled
                  /\ IF state.enabled
                     THEN UNCHANGED <<shutdown_ch, fwd_pc>>
                     ELSE IF ShutdownSendReady(shutdown_ch)
                          THEN shutdown_ch' = shutdown_ch + 1 /\ UNCHANGED fwd_pc
                          ELSE fwd_pc' = "send_shutdown" /\ UNCHANGED shutdown_ch
          ELSE /\ forward_system_enabled_rx' = after_recv
               /\ UNCHANGED <<fwd_system_enabled, shutdown_ch, fwd_pc>>
    /\ UNCHANGED <<sharedVars, bt_rx, bcast, system_enabled_ch, time_sync_rx, se_rx,
                   sessionVars, interactionVars, audioVars, workerVars, now, taskVars>>

\* ---------------------------------------------------------------------------
\* Time service client (connect_main.rs:495-522)
\* ---------------------------------------------------------------------------

\* time_sync_tx.send(res.elapsed_nanoseconds as u64).await
TimeSync(t) ==
    /\ main_pc = "await_audio"
    /\ time_service_pc = "recv"
    /\ Len(time_sync_rx) < MaxTimeSyncQueue
    /\ time_sync_rx' = Append(time_sync_rx, t)
    /\ UNCHANGED <<sharedVars, bt_rx, bcast, system_enabled_ch, shutdown_ch, se_rx, fwdVars,
                   sessionVars, interactionVars, audioVars, workerVars, now, taskVars>>

\* ---------------------------------------------------------------------------
\* Session client: the uplink stream (connect_main.rs:267-304)
\* ---------------------------------------------------------------------------

\* The filter_map closure: an observation is kept when its address is a key
\* of sound_map at that moment.
filter_map_KeepAll(sounds, info) == <<info>>
filter_map(sounds, info) == IF info.address \in DOMAIN sounds THEN <<info>> ELSE <<>>

\* LocationRssi { address, rssi }; the cast i16 -> i32 keeps every value.
LocationRssi(info) == [address |-> info.address, rssi |-> info.rssi]

\* The map closure: the chunk becomes one request; user_id is my_address or
\* the empty string.
StreamDeviceInfoRequest(my_addr, infos) ==
    [user_id |-> IF my_addr = None THEN "" ELSE my_addr,
     locations |-> [i \in 1..Len(infos) |-> LocationRssi(infos[i])]]

\* The stream takes the next observation of the fan-out. A kept one joins
\* the chunk; the first of a chunk starts the 50 ms timer; the tenth
\* completes the chunk, which is sent at once.
UplinkNext ==
    /\ main_pc = "await_audio"
    /\ session_pc = "recv"
    /\ uplink_rx < Len(bcast)
    /\ uplink_rx' = uplink_rx + 1
    /\ LET kept == filter_map(sound_map, bcast[uplink_rx + 1])
           items == uplink_items \o kept
       IN IF Len(items) >= CHUNK_SIZE
          THEN /\ uplink_request' = <<StreamDeviceInfoRequest(my_address, items)>>
               /\ uplink_items' = <<>>
               /\ UNCHANGED uplink_deadline
          ELSE /\ uplink_items' = items
               /\ uplink_deadline' = IF uplink_items = <<>> /\ kept # <<>>
                                      THEN now + CHUNK_TIMEOUT_MS
                                      ELSE uplink_deadline
               /\ UNCHANGED uplink_request
    /\ UNCHANGED <<sharedVars, chanVars, fwdVars, sessionVars, interactionVars, audioVars,
                   workerVars, now, mainVars, connectVars, scannerVars>>

\* The timer of a chunk fires while the fan-out has nothing more to give:
\* the chunk collected so far is sent.
UplinkTimeout ==
    /\ main_pc = "await_audio"
    /\ session_pc = "recv"
    /\ uplink_rx = Len(bcast)
    /\ uplink_items # <<>>
    /\ now >= uplink_deadline
    /\ uplink_request' = <<StreamDeviceInfoRequest(my_address, uplink_items)>>
    /\ uplink_items' = <<>>
    /\ UNCHANGED <<sharedVars, chanVars, fwdVars, sessionVars, interactionVars, audioVars,
                   workerVars, now, mainVars, connectVars, scannerVars, uplink_rx,
                   uplink_deadline>>

\* `while let Some(item) = stream.next().await` ends when the stream does.
TimeStreamEnd ==
    /\ main_pc = "await_audio"
    /\ time_service_pc = "recv"
    /\ time_service_pc' = "done"
    /\ UNCHANGED <<sharedVars, chanVars, fwdVars, sessionVars, interactionVars, audioVars,
                   workerVars, mainVars, scannerVars, uplinkVars, connect_pc, connect_retry_at, now>>

\* client.stream_time(request).await: the receive loop on Ok, return on Err.
TimeServiceStart(ok) ==
    /\ main_pc = "await_audio"
    /\ time_service_pc = "start"
    /\ time_service_pc' = IF ok THEN "recv" ELSE "done"
    /\ UNCHANGED <<sharedVars, chanVars, fwdVars, sessionVars, interactionVars, audioVars,
                   workerVars, mainVars, scannerVars, uplinkVars, connect_pc, connect_retry_at, now>>

\* ---------------------------------------------------------------------------
\* connect_main (connect_main.rs:525-596)
\* ---------------------------------------------------------------------------
ConnectBackoffMs == 5000

\* One attempt of the connect loop: on Ok both service clients are spawned
\* and connect_main waits for them; on Err it sleeps 5 s.
Connect(ok) ==
    /\ main_pc = "await_audio"
    /\ connect_pc = "connect"
    /\ IF ok
       THEN /\ connect_pc' = "join"
            /\ session_pc' = "start"
            /\ time_service_pc' = "start"
            /\ UNCHANGED connect_retry_at
       ELSE /\ connect_pc' = "sleep"
            /\ connect_retry_at' = now + ConnectBackoffMs
            /\ UNCHANGED <<session_pc, time_service_pc>>
    /\ UNCHANGED <<sharedVars, chanVars, fwdVars, location_place_types, points_initialized,
                   last_location_update, self_point_update_seen, time_updates, interactionVars, audioVars, workerVars, mainVars, scannerVars, uplinkVars, now>>

\* The sleep is over: the loop tries again.
ConnectRetry ==
    /\ main_pc = "await_audio"
    /\ connect_pc = "sleep"
    /\ now >= connect_retry_at
    /\ connect_pc' = "connect"
    /\ UNCHANGED <<sharedVars, chanVars, fwdVars, sessionVars, interactionVars, audioVars,
                   workerVars, mainVars, scannerVars, uplinkVars, connect_retry_at, time_service_pc, now>>

\* tokio::try_join! of the two handles completes when both clients returned;
\* connect_main then returns Ok(()).
ConnectJoin ==
    /\ main_pc = "await_audio"
    /\ connect_pc = "join"
    /\ session_pc = "done"
    /\ time_service_pc = "done"
    /\ connect_pc' = "done"
    /\ UNCHANGED <<sharedVars, chanVars, fwdVars, sessionVars, interactionVars, audioVars,
                   workerVars, mainVars, scannerVars, uplinkVars, connect_retry_at, time_service_pc, now>>

\* run_device_service_client up to its stream call: the interaction task is
\* spawned with a receiver resubscribed at the tail of the fan-out, then
\* client.stream_device_info(..).await gives the receive loop on Ok and
\* returns on Err.
DeviceServiceStart(ok) ==
    /\ main_pc = "await_audio"
    /\ session_pc = "start"
    /\ session_pc' = IF ok THEN "recv" ELSE "done"
    /\ interaction_pc' = "recv"
    /\ interaction_rx' = Len(bcast)
    /\ UNCHANGED <<sharedVars, chanVars, fwdVars, location_place_types, points_initialized,
                   last_location_update, self_point_update_seen, time_updates, last_rssi_map, last_interaction_time, proximity_sent,
                   interaction_events,
                   audioVars, workerVars, taskVars, now>>

\* Lines 315-317: Event::TimeUpdate is logged.
TimeUpdate(elapsed_nanoseconds) ==
    /\ main_pc = "await_audio"
    /\ session_pc = "recv"
    /\ Len(time_updates) < MaxTimeUpdates
    /\ time_updates' = Append(time_updates, elapsed_nanoseconds)
    /\ UNCHANGED <<sharedVars, chanVars, fwdVars, location_place_types, points_initialized,
                   session_pc, last_location_update, self_point_update_seen, interactionVars,
                   audioVars, workerVars, taskVars, now>>

\* `while let Some(item) = stream.next().await` ends when the stream does.
DeviceStreamEnd ==
    /\ main_pc = "await_audio"
    /\ session_pc = "recv"
    /\ session_pc' = "done"
    /\ UNCHANGED <<sharedVars, chanVars, fwdVars, location_place_types, points_initialized,
                   last_location_update, self_point_update_seen, time_updates, interactionVars, audioVars, workerVars, taskVars, now>>

\* main.rs:213-227: the audio thread has returned or panicked; the main task
\* aborts the scanner, forwarding and session tasks and returns, which ends
\* the runtime and with it every task still spawned on it.
MainAbort ==
    /\ main_pc = "await_audio"
    /\ audio_pc # "running"
    /\ main_pc' = "finished"
    /\ UNCHANGED <<sharedVars, chanVars, fwdVars, sessionVars, interactionVars, audioVars,
                   workerVars, connectVars, scannerVars, uplinkVars, now>>

\* ---------------------------------------------------------------------------
\* Audio engine: values (audio_main.rs:25-75, 189-247)
\* ---------------------------------------------------------------------------

\* Option<T>: None is the empty sequence, Some(x) the sequence of x.
Nothing == <<>>
Some(x) == <<x>>
IsSome(o) == o # <<>>
Unwrap(o) == o[1]

CLEANUP_INTERVAL == 5000
SWITCH_GUARD_WINDOW == 400
SYNC_TIMEOUT == 5000
SwitchCapacity == 1     \* mpsc::channel::<PipelineState>(1)

\* default_sound = "tsukimi-main_1.mp3"
default_sound == SoundFile("main", <<1>>)

\* Playback rates (the pitch element's tempo) in 1/10000.
RateOne == 10000
RateMin == 9000
RateMax == 11000
LargeDriftMs == 3000
CORRECTION_TIME_S == 2

\* A music pipeline as build_pipeline returns it: not started, tempo 1.0.
\* pause_timed_out records whether the wait for Paused failed on this pipeline.
PipelineState(sound) ==
    [sound |-> sound, state |-> "Null", tempo |-> RateOne, pause_timed_out |-> FALSE]

\* pipeline.set_state(target)
SetState(p, target) == [p EXCEPT !.state = target]

\* An SE pipeline after set_state(Playing).
SePipeline(file) == [file |-> file, state |-> "Playing"]

\* ---------------------------------------------------------------------------
\* Audio engine: drift correction (audio_main.rs:566-593)
\* ---------------------------------------------------------------------------

\* f64::clamp
Clamp(x, lo, hi) == IF x < lo THEN lo ELSE IF x > hi THEN hi ELSE x

\* Variant: the seek target is the server time itself.
SeekPosition_NoWrap(server_time_ns) == server_time_ns

\* seek_to_server_time: server_time_ns % duration.nseconds(); the duration
\* query answers with the track's duration.
SeekPosition(server_time_ns) == server_time_ns % TrackDurationMs

\* Variant: the corrected rate is applied without clamping.
DriftRate_Unclamped(diff_ms) == RateOne + (diff_ms * RateOne) \div (1000 * CORRECTION_TIME_S)

\* (1.0 + diff_s / CORRECTION_TIME_S).clamp(0.9, 1.1)
DriftRate(diff_ms) ==
    Clamp(RateOne + (diff_ms * RateOne) \div (1000 * CORRECTION_TIME_S), RateMin, RateMax)

\* Variant: a large drift is corrected by the rate as well.
NewRate_AlwaysClamped(diff_ms) == DriftRate(diff_ms)

\* new_rate: 1.0 after the seek of a large drift, the clamped correction otherwise.
NewRate(diff_ms) == IF Abs(diff_ms) > LargeDriftMs THEN RateOne ELSE DriftRate(diff_ms)

\* ---------------------------------------------------------------------------
\* Audio engine: selection of the desired sound (audio_main.rs:596-656)
\* ---------------------------------------------------------------------------

\* The addresses of the candidates: registered and above RSSI_THRESHOLD.
Candidates(devices, sounds) ==
    {a \in DOMAIN devices : a \in DOMAIN sounds /\ devices[a].rssi > RSSI_THRESHOLD}

\* The points the comparator gives a candidate.
CandidatePoints(a, my_addr, points) == IF my_addr # None /\ a = my_addr THEN points ELSE 0

\* Variant: the comparator compares the RSSI only.
SortsBefore_RssiOnly(a, b, devices, my_addr, points) == devices[a].rssi > devices[b].rssi

\* The comparator of candidates.sort_by: a sorts strictly before b.
SortsBefore(a, b, devices, my_addr, points) ==
    \/ CandidatePoints(a, my_addr, points) > CandidatePoints(b, my_addr, points)
    \/ /\ CandidatePoints(a, my_addr, points) = CandidatePoints(b, my_addr, points)
       /\ devices[a].rssi > devices[b].rssi

\* candidates.first(): the sort is stable over the HashMap's iteration order,
\* so any candidate that no other sorts before can come first.
BestDevices(devices, sounds, my_addr, points) ==
    LET cs == Candidates(devices, sounds)
    IN IF cs = {} THEN {None}
       ELSE {a \in cs : \A b \in cs : ~SortsBefore(b, a, devices, my_addr, points)}

\* detected_devices.values().find(..): any device mapped to current_sound.
CurrentSoundDevices(devices, sounds, current) ==
    LET ds == {a \in DOMAIN devices : a \in DOMAIN sounds /\ sounds[a] = current}
    IN IF ds = {} THEN {None} ELSE ds

AllBelowThreshold(devices, sounds, current, current_sound_device) ==
    IF current_sound_device # None
    THEN devices[current_sound_device].rssi <= RSSI_THRESHOLD
    ELSE IF current = default_sound
         THEN FALSE
         ELSE LET registered_devices == {a \in DOMAIN devices : a \in DOMAIN sounds}
              IN /\ registered_devices # {}
                 /\ \A a \in registered_devices : devices[a].rssi <= RSSI_THRESHOLD

DesiredSound(best_device, all_below_threshold, sounds, current) ==
    IF best_device # None
    THEN IF best_device \in DOMAIN sounds THEN sounds[best_device] ELSE current
    ELSE IF all_below_threshold THEN default_sound ELSE current

\* The outcomes of one evaluation of the selection: best_device and the
\* desired sound it leads to.
Selections(devices, sounds, my_addr, points, current) ==
    {[best_device |-> best,
      desired_sound |-> DesiredSound(best, AllBelowThreshold(devices, sounds, current, csd),
                                     sounds, current)] :
        best \in BestDevices(devices, sounds, my_addr, points),
        csd \in CurrentSoundDevices(devices, sounds, current)}

\* The desired sounds one evaluation of the selection can produce.
DesiredSounds(devices, sounds, my_addr, points, current) ==
    {sel.desired_sound : sel \in Selections(devices, sounds, my_addr, points, current)}

\* ---------------------------------------------------------------------------
\* Audio engine: one iteration of 'main_loop (audio_main.rs:249-809)
\* ---------------------------------------------------------------------------

\* What the engine's inputs do during one iteration.
AudioInputs ==
    [active_error : BOOLEAN,     \* the active pipeline's bus holds an Error
     se_launch_ok : BOOLEAN,     \* gst::parse::launch of an SE pipeline succeeds
     se_done : BOOLEAN,          \* the SE pipeline's bus holds Eos or Error
     build_ok : BOOLEAN,         \* build_pipeline succeeds
     overflow_checks : BOOLEAN]  \* the build panics on integer overflow

\* The locals of audio_main and its ends of the channels at the top of the loop.
\* request is the SwitchRequest handed to a worker thread in this iteration.
AudioState ==
    [pc |-> audio_pc,
     system_enabled_rx |-> audio_system_enabled_rx,
     rx |-> audio_rx,
     time_sync_rx |-> time_sync_rx,
     se_rx |-> se_rx,
     switch_rx |-> switch_rx,
     system_enabled |-> system_enabled,
     playback_state |-> playback_state,
     current_sound |-> current_sound,
     detected_devices |-> detected_devices,
     last_cleanup |-> last_cleanup,
     active |-> active,
     standby |-> standby,
     se_pipeline |-> se_pipeline,
     is_se_playing |-> is_se_playing,
     should_play_activation_se |-> should_play_activation_se,
     playback_start_time |-> playback_start_time,
     initial_server_time_ns |-> initial_server_time_ns,
     last_server_time_ns |-> last_server_time_ns,
     switching |-> switching,
     last_switch_end |-> last_switch_end,
     desired_sound |-> desired_sound,
     activation_se_started |-> activation_se_started,
     se_live |-> se_live,
     best_device |-> last_best_device,
     dropped |-> {},
     seek |-> Nothing,
     request |-> Nothing]

\* `if let Some(old_se) = se_pipeline.take() { old_se.set_state(Null) }`: the
\* SE pipeline the loop holds, if any, is set to Null and its handle dropped.
StopSe_Keep(s) == s
StopSe(s) ==
    [s EXCEPT !.se_pipeline = Nothing,
              !.se_live = IF IsSome(s.se_pipeline) THEN @ - 1 ELSE @]

\* gst::parse::launch and set_state(Playing): a new SE pipeline is created
\* and its handle stored in se_pipeline.
StartSe(s, file) ==
    [s EXCEPT !.se_pipeline = Some(SePipeline(file)), !.se_live = @ + 1]

\* Lines 251-287: one SystemEnabledState is taken, if there is one.  A disable
\* sets every pipeline the loop holds to Null and drops it.
EnabledCheck(s) ==
    IF s.system_enabled_rx >= Len(system_enabled_ch)
    THEN s
    ELSE LET state == system_enabled_ch[s.system_enabled_rx + 1]
             s1 == [s EXCEPT !.system_enabled_rx = @ + 1,
                             !.system_enabled = state.enabled,
                             !.playback_state = "WaitingForFirstSync"]
         IN IF ~state.enabled
            THEN [StopSe(s1) EXCEPT !.active = Nothing,
                                    !.standby = Nothing,
                                    !.is_se_playing = FALSE,
                                    !.activation_se_started = 0]
            ELSE [s1 EXCEPT !.should_play_activation_se = TRUE]

\* Variant: an Error on the active bus is only logged.
ActiveBus_Ignore(s, active_error) == s

\* Lines 296-318 and 811-814: an Error on the active bus leaves the loop;
\* the exit sets active and standby to Null.
ActiveBus(s, active_error) ==
    IF IsSome(s.active) /\ active_error
    THEN [s EXCEPT !.pc = "exited", !.active = Nothing, !.standby = Nothing]
    ELSE s

\* Line 333: the newest server time wins.
DrainTimeSync(s) ==
    IF s.time_sync_rx = <<>>
    THEN s
    ELSE [s EXCEPT !.last_server_time_ns = Some(s.time_sync_rx[Len(s.time_sync_rx)]),
                   !.time_sync_rx = <<>>]

\* Lines 336-385: the activation SE.
ActivationSe(s, se_launch_ok) ==
    IF s.should_play_activation_se /\ ~s.is_se_playing
    THEN LET s1 == [StopSe(s) EXCEPT !.should_play_activation_se = FALSE,
                                     !.is_se_playing = se_launch_ok,
                                     !.activation_se_started =
                                            IF se_launch_ok THEN @ + 1 ELSE @]
         IN IF se_launch_ok THEN StartSe(s1, "se-activation.mp3") ELSE s1
    ELSE s

\* Lines 388-434: one SePlayRequest is taken, if there is one.
SeRequest(s, se_launch_ok) ==
    IF s.se_rx = <<>>
    THEN s
    ELSE LET s1 == [StopSe(s) EXCEPT !.se_rx = Tail(@), !.is_se_playing = TRUE]
         IN IF se_launch_ok THEN StartSe(s1, Head(s.se_rx)) ELSE s1

\* Lines 437-476: Eos or Error on the SE bus ends the SE.
SeBus(s, se_done) ==
    IF IsSome(s.se_pipeline) /\ se_done
    THEN [StopSe(s) EXCEPT !.is_se_playing = FALSE]
    ELSE s

\* The handles of hs that hold a pipeline which is not in the Null state.
\* Dropping such a handle, by overwriting it or by leaving its scope, releases
\* a pipeline that was never stopped.
LiveHandles(hs) == {h \in DOMAIN hs : IsSome(hs[h]) /\ Unwrap(hs[h]).state # "Null"}

\* The return of audio_main drops every local: after `break 'main_loop` the
\* exit code has set active and standby to Null (lines 811-814); a `?` return
\* and a panic run no exit code.  The pipelines waiting in the switch channel
\* go with its receiver.
Leave(s) ==
    LET locals == [active |-> s.active, standby |-> s.standby, se_pipeline |-> s.se_pipeline,
                   switch_rx |-> IF s.switch_rx = <<>> THEN Nothing ELSE Some(Head(s.switch_rx))]
    IN [s EXCEPT !.dropped = @ \cup LiveHandles(locals)]

\* let sync_wait_start = Instant::now(), taken once before the loop.
sync_wait_start == 0

\* Variant: the first active pipeline is built for the default sound.
WaitingForFirstSync_Default(s, build_ok) ==
    LET synced == IsSome(s.last_server_time_ns)
    IN IF synced \/ now - sync_wait_start > SYNC_TIMEOUT
       THEN IF ~build_ok
            THEN [s EXCEPT !.pc = "failed"]
            ELSE [s EXCEPT !.active = Some(SetState(PipelineState(default_sound), "Playing")),
                           !.playback_start_time = now,
                           !.initial_server_time_ns =
                                IF synced THEN Unwrap(s.last_server_time_ns) ELSE 0,
                           !.playback_state = "Playing"]
       ELSE s

\* Lines 479-523: the first active pipeline is built once a server time is
\* known, or without one after SYNC_TIMEOUT; `?` returns on a failed build.
WaitingForFirstSync(s, build_ok) ==
    LET synced == IsSome(s.last_server_time_ns)
    IN IF synced \/ now - sync_wait_start > SYNC_TIMEOUT
       THEN IF ~build_ok
            THEN [s EXCEPT !.pc = "failed"]
            ELSE [s EXCEPT !.active = Some(SetState(PipelineState(s.current_sound), "Playing")),
                           !.dropped = @ \cup LiveHandles([active |-> s.active]),
                           !.seek = IF synced
                                    THEN Some(SeekPosition(Unwrap(s.last_server_time_ns)))
                                    ELSE Nothing,
                           !.playback_start_time = now,
                           !.initial_server_time_ns =
                                IF synced THEN Unwrap(s.last_server_time_ns) ELSE 0,
                           !.playback_state = "Playing"]
       ELSE s

\* Lines 555-557: `while let Ok(device_info) = rx.try_recv()`.
RECURSIVE InsertDevices(_, _, _)
InsertDevices(devices, log, pos) ==
    IF pos >= Len(log)
    THEN devices
    ELSE InsertDevices(MapInsert(devices, log[pos + 1].address, log[pos + 1]), log, pos + 1)

UpdateDevices(s) ==
    [s EXCEPT !.detected_devices = InsertDevices(@, bcast, s.rx), !.rx = Len(bcast)]

\* Lines 558-563: entries not seen for CLEANUP_INTERVAL are dropped.
CleanupDevices(s) ==
    IF now - s.last_cleanup > CLEANUP_INTERVAL
    THEN LET devices == s.detected_devices
             fresh == {a \in DOMAIN devices : now - devices[a].last_seen < CLEANUP_INTERVAL}
         IN [s EXCEPT !.detected_devices = [a \in fresh |-> devices[a]],
                      !.last_cleanup = now]
    ELSE s

\* Lines 566-593.  server_time_ns - initial_server_time_ns is a u64
\* subtraction: below zero it panics with overflow checks and wraps without,
\* and the wrapped value read as i64 is the signed difference.
in_switch_guard_NoWindow(s) == s.switching
in_switch_guard(s) ==
    \/ s.switching
    \/ /\ IsSome(s.last_switch_end)
       /\ now - Unwrap(s.last_switch_end) < SWITCH_GUARD_WINDOW

DriftCorrection(s, overflow_checks) ==
    IF IsSome(s.last_server_time_ns) /\ IsSome(s.active)
    THEN LET server_time_ns == Unwrap(s.last_server_time_ns)
         IN IF s.initial_server_time_ns # 0 /\ ~in_switch_guard(s)
            THEN IF server_time_ns < s.initial_server_time_ns /\ overflow_checks
                 THEN [s EXCEPT !.pc = "panicked"]
                 ELSE LET server_elapsed == server_time_ns - s.initial_server_time_ns
                          client_elapsed == now - s.playback_start_time
                          diff_real == server_elapsed - client_elapsed
                      IN [s EXCEPT !.active = Some([Unwrap(s.active) EXCEPT
                                                        !.tempo = NewRate(diff_real)]),
                                   !.seek = IF Abs(diff_real) > LargeDriftMs
                                            THEN Some(SeekPosition(server_time_ns))
                                            ELSE Nothing,
                                   !.playback_start_time = now,
                                   !.initial_server_time_ns = server_time_ns]
            ELSE s
    ELSE s

\* Lines 659-689: a pipeline delivered by a worker replaces the active one.
SwitchCompletion(s) ==
    IF s.switch_rx = <<>>
    THEN s
    ELSE [s EXCEPT !.switch_rx = Tail(@),
                   !.active = Some(Head(s.switch_rx)),
                   !.playback_start_time = now,
                   !.initial_server_time_ns =
                        IF IsSome(s.last_server_time_ns) THEN Unwrap(s.last_server_time_ns)
                        ELSE @,
                   !.switching = FALSE,
                   !.last_switch_end = Some(now)]

\* Lines 692-717: a switch is requested and a worker thread is spawned.
SwitchRequest(s, desired) ==
    IF desired # s.current_sound /\ ~s.switching
    THEN [s EXCEPT !.switching = TRUE,
                   !.current_sound = desired,
                   !.standby = Nothing,
                   !.request = Some(desired)]
    ELSE s

\* Lines 524-803: the Playing arm; one result for every outcome of the selection.
Playing(s, overflow_checks) ==
    LET s1 == DriftCorrection(CleanupDevices(UpdateDevices(s)), overflow_checks)
    IN IF s1.pc # "running"
       THEN {s1}
       ELSE {SwitchRequest(SwitchCompletion([s1 EXCEPT
                                                !.desired_sound = Some(sel.desired_sound),
                                                !.best_device = sel.best_device]),
                           sel.desired_sound) :
                sel \in Selections(s1.detected_devices, sound_map, my_address,
                                   current_points, s1.current_sound)}

\* The states one iteration can end in.
LoopResults(s, in) ==
    LET s1 == EnabledCheck(s)
        results ==
            IF ~s1.system_enabled
            THEN {s1}
            ELSE LET s2 == ActiveBus(s1, in.active_error)
                 IN IF s2.pc # "running"
                    THEN {s2}
                    ELSE LET s3 == ActivationSe(DrainTimeSync(s2), in.se_launch_ok)
                             s4 == SeBus(SeRequest(s3, in.se_launch_ok), in.se_done)
                         IN IF s4.playback_state = "WaitingForFirstSync"
                            THEN {WaitingForFirstSync(s4, in.build_ok)}
                            ELSE Playing(s4, in.overflow_checks)
    IN {IF r.pc = "running" THEN r ELSE Leave(r) : r \in results}

AudioLoop(in) ==
    /\ main_pc = "await_audio"
    /\ audio_pc = "running"
    /\ \E s \in LoopResults(AudioState, in) :
          /\ audio_pc' = s.pc
          /\ audio_system_enabled_rx' = s.system_enabled_rx
          /\ audio_rx' = s.rx
          /\ time_sync_rx' = s.time_sync_rx
          /\ se_rx' = s.se_rx
          /\ switch_rx' = s.switch_rx
          /\ system_enabled' = s.system_enabled
          /\ playback_state' = s.playback_state
          /\ current_sound' = s.current_sound
          /\ detected_devices' = s.detected_devices
          /\ last_cleanup' = s.last_cleanup
          /\ active' = s.active
          /\ standby' = s.standby
          /\ se_pipeline' = s.se_pipeline
          /\ is_se_playing' = s.is_se_playing
          /\ should_play_activation_se' = s.should_play_activation_se
          /\ playback_start_time' = s.playback_start_time
          /\ initial_server_time_ns' = s.initial_server_time_ns
          /\ last_server_time_ns' = s.last_server_time_ns
          /\ switching' = s.switching
          /\ last_switch_end' = s.last_switch_end
          /\ desired_sound' = s.desired_sound
          /\ activation_se_started' = s.activation_se_started
          /\ se_live' = s.se_live
          /\ last_best_device' = s.best_device
          /\ dropped_live' = s.dropped
          /\ seeked_to' = s.seek
          /\ IF IsSome(s.request)
             THEN /\ worker_pc' = "build"
                  /\ worker_request' = s.request
                  /\ worker_next' = Nothing
             ELSE UNCHANGED workerVars
    /\ UNCHANGED <<sharedVars, bt_rx, bcast, system_enabled_ch, shutdown_ch, fwdVars,
                   sessionVars, interactionVars, now, taskVars>>

\* ---------------------------------------------------------------------------
\* Switch worker thread (audio_main.rs:717-801)
\* ---------------------------------------------------------------------------

\* Lines 720-725: build_pipeline, volume 1.0, tempo 1.0.
WorkerBuild(build_ok) ==
    /\ main_pc = "await_audio"
    /\ worker_pc = "build"
    /\ IF build_ok
       THEN /\ worker_next' = Some(PipelineState(Unwrap(worker_request)))
            /\ worker_pc' = "pause"
            /\ UNCHANGED worker_request
       ELSE /\ worker_pc' = "idle"
            /\ worker_request' = Nothing
            /\ UNCHANGED worker_next
    /\ UNCHANGED <<sharedVars, chanVars, fwdVars, sessionVars, interactionVars, audioVars, now,
                   taskVars>>

\* Lines 728-729: set_state(Paused) and wait_for_state, whose result is not used.
WorkerPause(reached) ==
    /\ main_pc = "await_audio"
    /\ worker_pc = "pause"
    /\ worker_next' = Some([SetState(Unwrap(worker_next), "Paused") EXCEPT
                                !.pause_timed_out = ~reached])
    /\ worker_pc' = "play"
    /\ UNCHANGED <<sharedVars, chanVars, fwdVars, sessionVars, interactionVars, audioVars,
                   worker_request, now, taskVars>>

\* Lines 731-743: the seek and set_state(Playing).
WorkerPlay ==
    /\ main_pc = "await_audio"
    /\ worker_pc = "play"
    /\ worker_next' = Some(SetState(Unwrap(worker_next), "Playing"))
    /\ worker_pc' = "buffer"
    /\ UNCHANGED <<sharedVars, chanVars, fwdVars, sessionVars, interactionVars, audioVars,
                   worker_request, now, taskVars>>

\* Lines 745-796: the wait for buffering, then blocking_send.  An Error
\* message returns without a send; a send to the loop that has returned fails.
\* Either way `next` is dropped as it is.
WorkerFinish(buffering) ==
    /\ main_pc = "await_audio"
    /\ worker_pc = "buffer"
    /\ IF buffering = "error" \/ audio_pc # "running"
       THEN /\ dropped_live' = dropped_live \cup LiveHandles([next |-> worker_next])
            /\ UNCHANGED switch_rx
       ELSE /\ Len(switch_rx) < SwitchCapacity
            /\ switch_rx' = Append(switch_rx, Unwrap(worker_next))
            /\ UNCHANGED dropped_live
    /\ UNCHANGED seeked_to
    /\ worker_pc' = "idle"
    /\ worker_next' = Nothing
    /\ worker_request' = Nothing
    /\ UNCHANGED <<sharedVars, chanVars, fwdVars, sessionVars, interactionVars,
                   audio_pc, audio_system_enabled_rx, audio_rx, audioLocals, now, taskVars>>

\* ---------------------------------------------------------------------------
\* Initial state (main.rs:77-130, audio_main.rs:189-247)
\* ---------------------------------------------------------------------------
\* main.rs:77-85
InitShared ==
    /\ sound_map = [a \in {InitialAddress} |-> InitialSound]
    /\ my_address = None
    /\ current_points = 0

\* main.rs:88-121
InitChannels ==
    /\ bt_rx = <<>>
    /\ bcast = <<>>
    /\ system_enabled_ch = <<>>
    /\ shutdown_ch = 0
    /\ time_sync_rx = <<>>
    /\ se_rx = <<>>

\* main.rs:126-130
InitForwarder ==
    /\ forward_system_enabled_rx = 0
    /\ fwd_system_enabled = TRUE
    /\ fwd_pc = "select"

\* connect_main.rs:163-168
InitSession ==
    /\ location_place_types = <<>>
    /\ points_initialized = FALSE
    /\ session_pc = "idle"
    /\ last_location_update = <<>>
    /\ self_point_update_seen = FALSE
    /\ time_updates = <<>>

\* connect_main.rs:170-181
InitInteraction ==
    /\ interaction_pc = "idle"
    /\ interaction_rx = 0
    /\ last_rssi_map = <<>>
    /\ last_interaction_time = <<>>
    /\ proximity_sent = <<>>
    /\ interaction_events = <<>>

\* audio_main.rs:199-247
InitAudio ==
    /\ audio_pc = "running"
    /\ audio_system_enabled_rx = 0
    /\ audio_rx = 0
    /\ switch_rx = <<>>
    /\ system_enabled = TRUE
    /\ playback_state = "WaitingForFirstSync"
    /\ current_sound = default_sound
    /\ detected_devices = <<>>
    /\ last_cleanup = 0
    /\ active = Nothing
    /\ standby = Nothing
    /\ se_pipeline = Nothing
    /\ is_se_playing = FALSE
    /\ should_play_activation_se = FALSE
    /\ playback_start_time = 0
    /\ initial_server_time_ns = 0
    /\ last_server_time_ns = Nothing
    /\ switching = FALSE
    /\ last_switch_end = Nothing
    /\ desired_sound = Nothing
    /\ activation_se_started = 0
    /\ se_live = 0
    /\ last_best_device = None
    /\ dropped_live = {}
    /\ seeked_to = Nothing

\* No switch worker runs before the first switch request.
InitWorker ==
    /\ worker_pc = "idle"
    /\ worker_request = Nothing
    /\ worker_next = Nothing

\* main.rs:213-214: the main task waits for the audio thread.
InitMain == main_pc = "await_audio"

\* main.rs:181: the receiver of the uplink stream is subscribed before
\* connect_main starts; connect_main.rs:267-304 builds the stream around it.
InitUplink ==
    /\ uplink_rx = 0
    /\ uplink_items = <<>>
    /\ uplink_deadline = 0
    /\ uplink_request = <<>>

\* bluetooth_main.rs:162-183: the cache starts empty and the cleanup task
\* starts with its first sleep.
InitScanner ==
    /\ device_cache = <<>>
    /\ cache_cleanup_at = CACHE_CLEANUP_INTERVAL_MS
    /\ last_emitted = <<>>

\* connect_main.rs:536-541: connect_main starts with its first connection
\* attempt; the service clients are spawned after it succeeded.
InitConnect ==
    /\ connect_pc = "connect"
    /\ connect_retry_at = 0
    /\ time_service_pc = "idle"

Init ==
    /\ InitShared
    /\ InitMain
    /\ InitScanner
    /\ InitUplink
    /\ InitConnect
    /\ InitChannels
    /\ InitForwarder
    /\ InitSession
    /\ InitInteraction
    /\ InitAudio
    /\ InitWorker
    /\ now = 0

vars == <<sharedVars, chanVars, fwdVars, sessionVars, interactionVars, audioVars, workerVars,
          taskVars, now>>

\* ---------------------------------------------------------------------------
\* The forwarding fabric: scanner, forwarder and the enable flag's publisher
\* ---------------------------------------------------------------------------
NextForward ==
    \/ ScannerSetAddress
    \/ Connect(TRUE)
    \/ DeviceServiceStart(TRUE)
    \/ \E a \in Addresses, r \in Rssis : ScannerSend(a, r)
    \/ \E ms \in SeqsUpTo(MoonlightEntries, MaxMoonlights) : MoonlightUpdate(ms)
    \/ ForwardDeviceInfo(MaxForwarded)
    \/ ForwardSystemEnabled

SpecForward == Init /\ [][NextForward]_vars

\* The enable flag last published for this node, None if nothing was published.
LastPublished ==
    IF system_enabled_ch = <<>> THEN None
    ELSE IF system_enabled_ch[Len(system_enabled_ch)].enabled THEN "enabled" ELSE "disabled"

\* The forwarder has taken every published message and is back at select!.
ForwarderCaughtUp ==
    /\ fwd_pc = "select"
    /\ forward_system_enabled_rx = Len(system_enabled_ch)

\* C1: once a disable is the last message published and the forwarder has taken
\* everything published, the forwarder sends no further observation to bcast.
C1_ForwarderStopsAfterDisable ==
    [][(LastPublished = "disabled" /\ ForwarderCaughtUp) => bcast' = bcast]_vars

\* C2: the forwarder never waits on a send that cannot complete, so it always
\* returns to select! and goes on draining bt_rx.
C2_ForwarderNeverBlocks ==
    ~(fwd_pc = "send_shutdown" /\ ~ShutdownSendReady(shutdown_ch))

\* ---------------------------------------------------------------------------
\* The session client's downlink: LocationUpdate and PointUpdate events
\* ---------------------------------------------------------------------------
UpdatePlaceTypes == {"buddhas_bowl", "fire_rat_robe", "projection_mapping"}
LocationEntries == [address : BeaconAddresses \cup {InitialAddress}, place_type : UpdatePlaceTypes]
PointValues == {0, 1, 2}
UserIds == {SelfAddress, "X"}

NextSession ==
    \/ ScannerSetAddress
    \/ Connect(TRUE)
    \/ DeviceServiceStart(TRUE)
    \/ \E locations \in SeqsUpTo(LocationEntries, MaxLocations) : LocationUpdate(locations)
    \/ \E user_id \in UserIds, points \in PointValues : PointUpdate(user_id, points)

SpecSession == Init /\ [][NextSession]_vars

\* C10: once a LocationUpdate has been applied, SoundMap and LocationTypeCache
\* have the same key set, the set of addresses of the last update applied.
C10_SameKeySet ==
    last_location_update # <<>> =>
        /\ DOMAIN sound_map = last_location_update[1]
        /\ DOMAIN location_place_types = last_location_update[1]

\* An update that does not name the initial address has been applied after
\* the points changed, and it removed the initial entry.
C10_Witness ==
    /\ last_location_update # <<>>
    /\ last_location_update[1] # {}
    /\ InitialAddress \notin last_location_update[1]
    /\ current_points = 2

\* ---------------------------------------------------------------------------
\* The whole downlink: LocationUpdate, PointUpdate and MoonlightUpdate events
\* ---------------------------------------------------------------------------
NextDownlink ==
    \/ ScannerSetAddress
    \/ Connect(TRUE)
    \/ DeviceServiceStart(TRUE)
    \/ \E location \in LocationEntries : LocationUpdate(<<location>>)
    \/ \E user_id \in UserIds, points \in PointValues : PointUpdate(user_id, points)
    \/ \E moonlight \in MoonlightEntries : MoonlightUpdate(<<moonlight>>)

SpecDownlink == Init /\ [][NextDownlink]_vars

\* C11: a step changes Points only if it is a PointUpdate whose user_id is
\* this node's known address and whose value differs from the current Points,
\* and it writes that value; every other step leaves Points as it was.
C11_PointsWrittenOnlyBySelfUpdate ==
    [][current_points' # current_points =>
          /\ my_address # None
          /\ \E points \in PointValues :
                /\ points # current_points
                /\ current_points' = points
                /\ PointUpdate(my_address, points)]_vars

\* Points has been written, and updates for another user and updates from
\* before the address was known have been received on the way.
C11_Witness ==
    /\ current_points = 2
    /\ my_address = SelfAddress
    /\ system_enabled_ch # <<>>
    /\ last_location_update # <<>>

\* C18: the first PointUpdate received for this node requests no SE, and every
\* later one requests se-point.mp3 exactly when it raises the points.
C18_PointGainSe ==
    [][\A points \in PointValues :
        (my_address # None /\ PointUpdate(my_address, points)) =>
            se_rx' = IF self_point_update_seen /\ points > current_points
                     THEN Append(se_rx, "se-point.mp3")
                     ELSE se_rx]_vars

\* ---------------------------------------------------------------------------
\* The interaction task fed by the scanner and the forwarder
\* ---------------------------------------------------------------------------
InteractionTickMs == 5000
InteractionRssis == {-50, -40}
InteractionUpdates ==
    {<<[address |-> "B1", place_type |-> "fire_rat_robe"],
       [address |-> "B2", place_type |-> "fire_rat_robe"]>>,
     <<[address |-> "B1", place_type |-> "buddhas_bowl"],
       [address |-> "B2", place_type |-> "projection_mapping"]>>}

NextInteraction ==
    \/ ScannerSetAddress
    \/ Connect(TRUE)
    \/ DeviceServiceStart(TRUE)
    \/ \E a \in BeaconAddresses, r \in InteractionRssis : ScannerSend(a, r)
    \/ ForwardDeviceInfo(MaxForwarded)
    \/ \E locations \in InteractionUpdates : LocationUpdate(locations)
    \/ InteractionRecv
    \/ Tick(InteractionTickMs, MaxInteractionTime)

SpecInteraction == Init /\ [][NextInteraction]_vars

\* C9: two proximity SE requests for the same place_type are at least 10 s apart.
C9_ProximityCooldown ==
    \A i, j \in 1..Len(proximity_sent) :
        (i < j /\ proximity_sent[i].place_type = proximity_sent[j].place_type)
            => proximity_sent[j].at - proximity_sent[i].at >= 10000

\* Two requests for one place_type, triggered by two different beacons, were
\* sent exactly 10 s apart.
C9_Witness ==
    \E i, j \in 1..Len(proximity_sent) :
        /\ i < j
        /\ proximity_sent[i].place_type = proximity_sent[j].place_type
        /\ proximity_sent[j].at - proximity_sent[i].at = 10000
        /\ proximity_sent[i].address # proximity_sent[j].address

\* ---------------------------------------------------------------------------
\* The selection of the desired sound, over the states the Playing arm can
\* evaluate it in
\* ---------------------------------------------------------------------------
SelectAddresses == BeaconAddresses \cup {SelfAddress}
SelectRssis == {-80, -70, -50, -48}
SelectPlaceTypes == {"buddhas_bowl", "projection_mapping"}
SelectPoints == {0, 2}

\* The maps address -> x over the subsets of a set of addresses.
PartialMaps(addresses, values) == UNION {[keys -> values] : keys \in SUBSET addresses}

\* The engine is Playing current_sound.  SoundMap and the place-type cache are
\* what a LocationUpdate and the PointUpdates left; current_sound is the default
\* or a sound an earlier SoundMap held; DeviceTable holds any observations of
\* addresses that were registered when the scanner saw them.
InitSelect ==
    /\ \E types \in PartialMaps(SelectAddresses, SelectPlaceTypes) :
          /\ location_place_types = types
          /\ last_location_update = <<DOMAIN types>>
          /\ \E points \in SelectPoints :
                /\ current_points = points
                /\ sound_map = [a \in DOMAIN types |->
                        get_sound_file_from_place_type_and_points(types[a], points)]
    /\ my_address = SelfAddress
    /\ points_initialized = (current_points # 0)
    /\ self_point_update_seen = (current_points # 0)
    /\ time_updates = <<>>
    /\ session_pc = "recv"
    /\ InitChannels
    /\ InitForwarder
    /\ interaction_pc = "recv"
    /\ interaction_rx = 0
    /\ last_rssi_map = <<>>
    /\ last_interaction_time = <<>>
    /\ proximity_sent = <<>>
    /\ interaction_events = <<>>
    /\ InitWorker
    /\ InitMain
    /\ InitScanner
    /\ InitUplink
    /\ connect_pc = "join"
    /\ connect_retry_at = 0
    /\ time_service_pc = "recv"
    /\ now = 0
    /\ audio_pc = "running"
    /\ audio_system_enabled_rx = 0
    /\ audio_rx = 0
    /\ switch_rx = <<>>
    /\ system_enabled = TRUE
    /\ playback_state = "Playing"
    /\ current_sound \in {get_sound_file_from_place_type_and_points(pt, points) :
                              pt \in SelectPlaceTypes, points \in SelectPoints}
    /\ \E rssis \in PartialMaps(SelectAddresses, SelectRssis) :
          detected_devices = [a \in DOMAIN rssis |-> DeviceInfo(a, rssis[a], 0)]
    /\ last_cleanup = 0
    /\ active = Some(SetState(PipelineState(current_sound), "Playing"))
    /\ standby = Nothing
    /\ se_pipeline = Nothing
    /\ is_se_playing = FALSE
    /\ should_play_activation_se = FALSE
    /\ playback_start_time = 0
    /\ initial_server_time_ns = 0
    /\ last_server_time_ns = Nothing
    /\ switching = FALSE
    /\ last_switch_end = Nothing
    /\ desired_sound = Nothing
    /\ activation_se_started = 0
    /\ se_live = 0
    /\ last_best_device = None
    /\ dropped_live = {}
    /\ seeked_to = Nothing

\* Lines 598-656 of the Playing arm: best_device, all_below_threshold and
\* desired_sound, evaluated on the current state.
SelectDesiredSound ==
    /\ audio_pc = "running"
    /\ playback_state = "Playing"
    /\ \E sel \in Selections(detected_devices, sound_map, my_address, current_points,
                              current_sound) :
          /\ desired_sound' = Some(sel.desired_sound)
          /\ last_best_device' = sel.best_device
    /\ UNCHANGED <<sharedVars, chanVars, fwdVars, sessionVars, interactionVars, audio_pc,
                   audio_system_enabled_rx, audio_rx, switch_rx, system_enabled,
                   playback_state, current_sound, detected_devices, last_cleanup, active,
                   standby, se_pipeline, is_se_playing, should_play_activation_se,
                   playback_start_time, initial_server_time_ns, last_server_time_ns,
                   switching, last_switch_end, activation_se_started, se_live, dropped_live,
                   seeked_to, workerVars, now, taskVars>>

NextSelect == SelectDesiredSound

SpecSelect == InitSelect /\ [][NextSelect]_vars

\* The observed RSSIs of the addresses mapped to current_sound, i16::MIN if
\* no observed address is mapped to it.
CurrentRssis ==
    LET ds == {a \in DOMAIN detected_devices :
                  a \in DOMAIN sound_map /\ sound_map[a] = current_sound}
    IN IF ds = {} THEN {I16Min} ELSE {detected_devices[a].rssi : a \in ds}

\* C7: when candidates exist, the desired sound differs from current_sound only
\* if it is the sound of a top-ranked candidate whose RSSI exceeds the RSSI
\* observed for current_sound by more than 3 dBm.
C7_Hysteresis ==
    (/\ IsSome(desired_sound)
     /\ Candidates(detected_devices, sound_map) # {}
     /\ Unwrap(desired_sound) # current_sound)
        => \E b \in BestDevices(detected_devices, sound_map, my_address, current_points) :
              /\ sound_map[b] = Unwrap(desired_sound)
              /\ \E current_rssi \in CurrentRssis :
                    detected_devices[b].rssi > current_rssi + 3

\* C24: when no candidate exists and the selection leaves current_sound, the
\* desired sound is the fallback tsukimi-main_<max(points, 1)>.mp3 of the
\* current points.
C24_FallbackFollowsPoints ==
    (/\ IsSome(desired_sound)
     /\ Candidates(detected_devices, sound_map) = {}
     /\ Unwrap(desired_sound) # current_sound)
        => Unwrap(desired_sound) =
              [base |-> "main", suffix |-> <<IF current_points > 1 THEN current_points ELSE 1>>]

\* An observed address registered in sound_map with an RSSI above -70 dBm.
IsCandidate(a) ==
    a \in DOMAIN detected_devices /\ a \in DOMAIN sound_map /\ detected_devices[a].rssi > -70

\* The points key of an address: the points for this node's own, 0 otherwise.
PointsKey(a) == IF a = my_address THEN current_points ELSE 0

AudioAddresses == {InitialAddress}
AudioRssis == {-50}
AudioMoonlights ==
    {<<[device |-> SelfAddress, address |-> SelfAddress, enabled |-> e]>> : e \in BOOLEAN}
AudioServerTimes == {1000}
BufferingOutcomes == {"buffered", "timeout", "error"}

NextAudio ==
    \/ ScannerSetAddress
    \/ Connect(TRUE)
    \/ DeviceServiceStart(TRUE)
    \/ TimeServiceStart(TRUE)
    \/ \E a \in AudioAddresses, r \in AudioRssis : ScannerSend(a, r)
    \/ ForwardDeviceInfo(MaxForwarded)
    \/ ForwardSystemEnabled
    \/ \E ms \in AudioMoonlights : MoonlightUpdate(ms)
    \/ \E t \in AudioServerTimes : TimeSync(t)
    \/ \E in \in AudioInputs : AudioLoop(in)
    \/ \E ok \in BOOLEAN : WorkerBuild(ok)
    \/ \E reached \in BOOLEAN : WorkerPause(reached)
    \/ WorkerPlay
    \/ \E buffering \in BufferingOutcomes : WorkerFinish(buffering)

SpecAudio == Init /\ [][NextAudio]_vars

\* A music pipeline or an SE pipeline is in the Playing state.
IsPlaying(o) == IsSome(o) /\ Unwrap(o).state = "Playing"

AnyPipelinePlaying ==
    \/ IsPlaying(active)
    \/ IsPlaying(standby)
    \/ IsPlaying(se_pipeline)
    \/ IsPlaying(worker_next)
    \/ \E i \in 1..Len(switch_rx) : switch_rx[i].state = "Playing"

\* C3: while the audio engine's enable flag is false, that is from the iteration
\* that observed enabled=false until the one that observes enabled=true, no
\* music pipeline and no SE pipeline is Playing, the pipeline a switch worker
\* is preparing included.
C3_SilentWhileDisabled == ~system_enabled => ~AnyPipelinePlaying

\* C4: between two disables the activation SE is started at most once, however
\* many enabled=true updates arrive.
C4_OneActivationSePerEdge == activation_se_started <= 1

\* C5: a standby pipeline whose wait for Paused timed out is never promoted
\* to active.
C5_TimedOutStandbyAbandoned == IsSome(active) => ~Unwrap(active).pause_timed_out

\* C14: no pipeline handle is dropped or overwritten while its pipeline is in a
\* state other than Null.
C14_NullBeforeDrop == dropped_live = {}

\* ---------------------------------------------------------------------------
\* Drift correction: the audio engine and its switch worker under a running
\* clock, fed by the scanner, the forwarder and the time service
\* ---------------------------------------------------------------------------
DriftServerTimes == {1000, 2000, 5000}
DriftTickMs == 500

\* No pipeline fails; the build may or may not check integer overflow.
DriftInputs ==
    {in \in AudioInputs :
        ~in.active_error /\ in.se_launch_ok /\ ~in.se_done /\ in.build_ok}

NextDrift ==
    \/ ScannerSetAddress
    \/ Connect(TRUE)
    \/ TimeServiceStart(TRUE)
    \/ \E a \in AudioAddresses, r \in AudioRssis : ScannerSend(a, r)
    \/ ForwardDeviceInfo(MaxForwarded)
    \/ \E t \in DriftServerTimes : TimeSync(t)
    \/ \E in \in DriftInputs : AudioLoop(in)
    \/ \E ok \in BOOLEAN : WorkerBuild(ok)
    \/ \E reached \in BOOLEAN : WorkerPause(reached)
    \/ WorkerPlay
    \/ \E buffering \in BufferingOutcomes : WorkerFinish(buffering)
    \/ Tick(DriftTickMs, MaxDriftTime)

SpecDrift == Init /\ [][NextDrift]_vars

\* C8: the playback rate of the active pipeline, and of a pipeline on its way
\* to become active, is within [0.9, 1.1].
RateInRange(o) == IsSome(o) => (RateMin <= Unwrap(o).tempo /\ Unwrap(o).tempo <= RateMax)

C8_RateInRange ==
    /\ RateInRange(active)
    /\ RateInRange(worker_next)
    /\ \A i \in 1..Len(switch_rx) : RateInRange(Some(switch_rx[i]))

\* After a switch was completed, a drift correction has set the rate of the
\* promoted pipeline to the lower end of the range.
C8_Witness ==
    /\ IsSome(last_switch_end)
    /\ IsSome(active)
    /\ Unwrap(active).sound # default_sound
    /\ Unwrap(active).tempo = RateMin

\* The iteration applies a drift correction: it is in Playing with an active
\* pipeline, a server time and an anchor, outside the switch guard, and it
\* does not end the loop.
Corrects ==
    /\ \E in \in DriftInputs : AudioLoop(in)
    /\ playback_state = "Playing"
    /\ IsSome(active)
    /\ IsSome(last_server_time_ns')
    /\ initial_server_time_ns # 0
    /\ ~switching
    /\ IsSome(last_switch_end) => now - Unwrap(last_switch_end) >= 400
    /\ audio_pc' = "running"

TakesOutOfOrderSample ==
    /\ \E in \in DriftInputs : AudioLoop(in)
    /\ playback_state = "Playing"
    /\ IsSome(active)
    /\ initial_server_time_ns # 0
    /\ ~switching
    /\ switch_rx = <<>>
    /\ time_sync_rx # <<>>
    /\ time_sync_rx[Len(time_sync_rx)] < initial_server_time_ns

\* C17: a server time older than the anchor's is discarded: the loop goes on,
\* and the rate, the anchor and the playhead stay as they were.
C17_OutOfOrderDiscarded ==
    [][TakesOutOfOrderSample =>
        /\ audio_pc' = "running"
        /\ IsSome(active')
        /\ Unwrap(active').tempo = Unwrap(active).tempo
        /\ initial_server_time_ns' = initial_server_time_ns
        /\ playback_start_time' = playback_start_time
        /\ seeked_to' = Nothing]_vars

\* ---------------------------------------------------------------------------
\* A beacon that stops being observed: the audio engine and its switch worker
\* under a clock that passes CLEANUP_INTERVAL
\* ---------------------------------------------------------------------------
PruneTickMs == 5500

NextPrune ==
    \/ ScannerSetAddress
    \/ Connect(TRUE)
    \/ TimeServiceStart(TRUE)
    \/ \E a \in AudioAddresses, r \in AudioRssis : ScannerSend(a, r)
    \/ ForwardDeviceInfo(MaxForwarded)
    \/ \E t \in AudioServerTimes : TimeSync(t)
    \/ \E in \in DriftInputs : AudioLoop(in)
    \/ \E ok \in BOOLEAN : WorkerBuild(ok)
    \/ \E reached \in BOOLEAN : WorkerPause(reached)
    \/ WorkerPlay
    \/ \E buffering \in BufferingOutcomes : WorkerFinish(buffering)
    \/ Tick(PruneTickMs, MaxPruneTime)

SpecPrune == Init /\ [][NextPrune]_vars

\* C6: whenever the candidate set is empty, the desired sound of the selection
\* is the default sound, also after the beacon of the current sound was pruned
\* from the DeviceTable.
C6_DefaultWhenNoCandidate ==
    (IsSome(desired_sound) /\ Candidates(detected_devices, sound_map) = {})
        => Unwrap(desired_sound) = default_sound

\* The step in which the engine leaves WaitingForFirstSync.
StartsPlaying == playback_state = "WaitingForFirstSync" /\ playback_state' = "Playing"

ExitInputs == {in \in AudioInputs : in.se_launch_ok /\ ~in.se_done}

NextExit ==
    \/ ScannerSetAddress
    \/ Connect(TRUE)
    \/ TimeServiceStart(TRUE)
    \/ \E a \in AudioAddresses, r \in AudioRssis : ScannerSend(a, r)
    \/ ForwardDeviceInfo(MaxForwarded)
    \/ \E t \in AudioServerTimes : TimeSync(t)
    \/ \E in \in ExitInputs : AudioLoop(in)
    \/ \E ok \in BOOLEAN : WorkerBuild(ok)
    \/ \E reached \in BOOLEAN : WorkerPause(reached)
    \/ WorkerPlay
    \/ \E buffering \in BufferingOutcomes : WorkerFinish(buffering)
    \/ MainAbort

\* audio_handle.await completes once the blocking task has returned or
\* panicked, and the main task runs on from there.
SpecExit == Init /\ [][NextExit]_vars /\ WF_vars(MainAbort)

\* The iteration reaches the drain of the active pipeline's bus: the system is
\* enabled after the enabled check and an active pipeline exists.
ReadsActiveBus ==
    LET s1 == EnabledCheck(AudioState)
    IN s1.system_enabled /\ IsSome(s1.active)

\* C12: an iteration that finds an Error on the active pipeline's bus ends the
\* audio loop; once the audio thread has ended the main task aborts the other
\* tasks and finishes, and nothing runs after that.
C12_ErrorEndsLoopAndTasks ==
    /\ [][\A in \in ExitInputs :
            (in.active_error /\ ReadsActiveBus /\ AudioLoop(in)) => audio_pc' = "exited"]_vars
    /\ (audio_pc # "running") ~> (main_pc = "finished")
    /\ [][main_pc # "finished"]_vars

\* The loop was left on an Error while playing, every pipeline it held is
\* gone, and the main task has aborted the tasks that had been forwarding.
C12_Witness ==
    /\ main_pc = "finished"
    /\ audio_pc = "exited"
    /\ playback_state = "Playing"
    /\ active = Nothing
    /\ bcast # <<>>

\* ---------------------------------------------------------------------------
\* The session: connection attempts, the two streams and their ends
\* ---------------------------------------------------------------------------
ConnectTickMs == 5000

NextConnect ==
    \/ ScannerSetAddress
    \/ \E ok \in BOOLEAN : Connect(ok)
    \/ ConnectRetry
    \/ \E ok \in BOOLEAN : DeviceServiceStart(ok)
    \/ \E ok \in BOOLEAN : TimeServiceStart(ok)
    \/ \E location \in LocationEntries : LocationUpdate(<<location>>)
    \/ \E t \in AudioServerTimes : TimeSync(t)
    \/ DeviceStreamEnd
    \/ TimeStreamEnd
    \/ ConnectJoin
    \/ Tick(ConnectTickMs, MaxConnectTime)

SpecConnect == Init /\ [][NextConnect]_vars

\* C13: a failed connection attempt is followed by the next attempt once 5 s
\* have passed, and the session client never returns for good: after its
\* streams have ended it is still in, or on its way back to, a connection
\* attempt.
C13_SessionRetriesForever ==
    /\ [][(connect_pc = "sleep" /\ connect_pc' = "connect")
            => now >= connect_retry_at]_vars
    /\ [](connect_pc # "done")

\* ---------------------------------------------------------------------------
\* The scanner with its cache and the cleanup task, over one minute
\* ---------------------------------------------------------------------------
ScanAddresses == {"B1", "B2"}
ScanRssis == {-60, -59}
ScanLocationEntries == [address : ScanAddresses, place_type : {"buddhas_bowl"}]

NextScanner ==
    \/ ScannerSetAddress
    \/ Connect(TRUE)
    \/ DeviceServiceStart(TRUE)
    \/ \E location \in ScanLocationEntries : LocationUpdate(<<location>>)
    \/ \E a \in ScanAddresses, r \in ScanRssis : ScannerSend(a, r)
    \/ CacheCleanup
    \/ ForwardDeviceInfo(MaxForwarded)
    \/ Tick(ScanTickMs, ScanFineTime)
    \/ Tick(CACHE_CLEANUP_INTERVAL_MS, MaxScanTime)

SpecScanner == Init /\ [][NextScanner]_vars

\* The step puts an observation of address a on bt_rx.
Emits(a) == Len(bt_rx') > Len(bt_rx) /\ bt_rx'[Len(bt_rx')].address = a

\* The step writes the cache entry of address a.
UpdatesCache(a) ==
    /\ a \in DOMAIN device_cache'
    /\ a \notin DOMAIN device_cache \/ device_cache'[a] # device_cache[a]

\* C19: every observation put on bt_rx has an address that is a key of
\* sound_map, and is the first one of its address or comes at least 25 ms
\* after the previous one of that address or differs from it in rssi by at
\* least 1; the cache entry of an address is written in exactly the steps
\* that emit an observation of it, with the instant and rssi of that one.
C19_ScannerDedup ==
    [][\A a \in ScanAddresses :
          /\ Emits(a) =>
                LET o == bt_rx'[Len(bt_rx')]
                IN /\ a \in DOMAIN sound_map
                   /\ \/ a \notin DOMAIN last_emitted
                      \/ o.last_seen - last_emitted[a].last_sent >= 25
                      \/ Abs(o.rssi - last_emitted[a].last_rssi) >= 1
                   /\ device_cache'[a] = DeviceCache(o.last_seen, o.rssi)
          /\ UpdatesCache(a) <=> Emits(a)]_vars

\* Two observations of one address less than 25 ms apart with different rssi
\* were forwarded, and the cleanup task has since dropped the address from
\* the cache.
C19_Witness ==
    /\ \E i, j \in 1..Len(bcast) :
          /\ i < j
          /\ bcast[i].address = bcast[j].address
          /\ bcast[j].last_seen - bcast[i].last_seen < 25
          /\ bcast[i].rssi # bcast[j].rssi
          /\ bcast[i].address \in DOMAIN last_emitted
          /\ bcast[i].address \notin DOMAIN device_cache
    /\ bt_rx # <<>>

\* ---------------------------------------------------------------------------
\* The uplink stream fed by the scanner and the forwarding task
\* ---------------------------------------------------------------------------
UplinkAddresses == {InitialAddress}
UplinkLocationEntries == [address : {"B1"}, place_type : {"buddhas_bowl"}]

NextUplink ==
    \/ ScannerSetAddress
    \/ Connect(TRUE)
    \/ DeviceServiceStart(TRUE)
    \/ \E location \in UplinkLocationEntries : LocationUpdate(<<location>>)
    \/ \E a \in UplinkAddresses, r \in ScanRssis : ScannerSend(a, r)
    \/ ForwardDeviceInfo(MaxUplinkForwarded)
    \/ UplinkNext
    \/ UplinkTimeout
    \/ Tick(CHUNK_TIMEOUT_MS, MaxUplinkTime)

SpecUplink == Init /\ [][NextUplink]_vars

\* The step sends a request: the chunk being collected is handed over.
SendsRequest == uplink_items' = <<>> /\ (uplink_items # <<>> \/ uplink_request' # uplink_request)

\* C20: every request sent carries 1 to 10 locations and the address of this
\* node, or the empty string while that is unknown, as user_id; its locations
\* are the chunk collected, and the chunk grows only by the next observation
\* of the fan-out, in order, whose address is a key of sound_map in that step.
C20_UplinkRequests ==
    [][LET taken == uplink_rx' # uplink_rx
           info == bcast[uplink_rx + 1]
           chunk == IF taken /\ info.address \in DOMAIN sound_map
                    THEN Append(uplink_items, info)
                    ELSE uplink_items
       IN /\ taken => uplink_rx < Len(bcast) /\ uplink_rx' = uplink_rx + 1
          /\ SendsRequest =>
                LET req == uplink_request'[1]
                IN /\ Len(req.locations) \in 1..10
                   /\ req.locations = [i \in 1..Len(chunk) |->
                                         [address |-> chunk[i].address, rssi |-> chunk[i].rssi]]
                   /\ req.user_id = IF my_address = None THEN "" ELSE my_address
          /\ ~SendsRequest => uplink_items' = chunk /\ uplink_request' = uplink_request]_vars

\* A request with ten locations has been sent, and the observation forwarded
\* after them was taken and left out because its address had left sound_map.
C20_Witness ==
    /\ uplink_request # <<>>
    /\ Len(uplink_request[1].locations) = 10
    /\ uplink_request[1].user_id = SelfAddress
    /\ uplink_rx = 11
    /\ uplink_items = <<>>
    /\ bcast[11].address \notin DOMAIN sound_map

\* ---------------------------------------------------------------------------
\* The device table of the audio engine under a clock finer than
\* CLEANUP_INTERVAL
\* ---------------------------------------------------------------------------
NextTable ==
    \/ ScannerSetAddress
    \/ Connect(TRUE)
    \/ TimeServiceStart(TRUE)
    \/ \E a \in AudioAddresses, r \in AudioRssis : ScannerSend(a, r)
    \/ ForwardDeviceInfo(MaxForwarded)
    \/ \E t \in AudioServerTimes : TimeSync(t)
    \/ \E in \in DriftInputs : AudioLoop(in)
    \/ \E ok \in BOOLEAN : WorkerBuild(ok)
    \/ \E reached \in BOOLEAN : WorkerPause(reached)
    \/ WorkerPlay
    \/ \E buffering \in BufferingOutcomes : WorkerFinish(buffering)
    \/ Tick(TableTickMs, MaxTableTime)

SpecTable == Init /\ [][NextTable]_vars

\* The step is an iteration of the loop that ran the selection.
RunsSelection ==
    /\ playback_state = "Playing"
    /\ playback_state' = "Playing"
    /\ system_enabled'
    /\ audio_pc' = "running"
    /\ \E in \in DriftInputs : AudioLoop(in)

\* C21: the table the selection reads holds only entries seen less than 5 s
\* ago, and a sweep of the table comes more than 5 s after the previous one.
C21_TableEntriesYoung ==
    /\ [][RunsSelection =>
            \A a \in DOMAIN detected_devices' :
                now - detected_devices'[a].last_seen < 5000]_vars
    /\ [][last_cleanup' # last_cleanup =>
            now - last_cleanup > 5000 /\ last_cleanup' = now]_vars

\* ---------------------------------------------------------------------------
\* The SE pipeline of the audio engine fed by point gains and activations
\* ---------------------------------------------------------------------------
SeInputs == {in \in AudioInputs : ~in.active_error /\ in.build_ok /\ ~in.overflow_checks}

NextSe ==
    \/ ScannerSetAddress
    \/ Connect(TRUE)
    \/ DeviceServiceStart(TRUE)
    \/ \E points \in PointValues : PointUpdate(SelfAddress, points)
    \/ \E ms \in AudioMoonlights : MoonlightUpdate(ms)
    \/ \E in \in SeInputs : AudioLoop(in)

SpecSe == Init /\ [][NextSe]_vars

\* C22: never more than one SE pipeline is outside the Null state, and it is
\* the one se_pipeline holds; an iteration that finds Eos or Error on the SE
\* bus ends with no SE pipeline.
C22_OneSePipeline ==
    /\ [](se_live <= 1 /\ (se_live = 1 <=> IsSome(se_pipeline)))
    /\ [][\A in \in SeInputs :
            (in.se_done /\ AudioLoop(in)) => (se_pipeline' = Nothing /\ se_live' = 0)]_vars

\* The SE of a point gain is the one SE pipeline, after an activation SE was
\* started and while another point-gain request is waiting.
C22_Witness ==
    /\ se_live = 1
    /\ se_pipeline = Some(SePipeline("se-point.mp3"))
    /\ activation_se_started = 1
    /\ se_rx # <<>>

\* ---------------------------------------------------------------------------
\* Asset names over every place type and the range of i32 points
\* ---------------------------------------------------------------------------
AssetPlaceTypes == {"projection_mapping", "buddhas_bowl", "jeweled_branch", "fire_rat_robe",
                    "dragons_jewel", "swallows_cowry", "unknown"}
AssetLocationEntries == [address : {"B1"}, place_type : AssetPlaceTypes]
AssetPoints == {-2147483647 - 1, -1, 0, 1, 2, 2147483647}

NextAsset ==
    \/ ScannerSetAddress
    \/ Connect(TRUE)
    \/ DeviceServiceStart(TRUE)
    \/ \E location \in AssetLocationEntries : LocationUpdate(<<location>>)
    \/ \E points \in AssetPoints : PointUpdate(SelfAddress, points)

SpecAsset == Init /\ [][NextAsset]_vars

\* The base name the specification lists for a place type.
ListedBase(place_type) ==
    CASE place_type = "projection_mapping" -> "main"
      [] place_type = "buddhas_bowl" -> "hotoke"
      [] place_type = "jeweled_branch" -> "eda"
      [] place_type = "fire_rat_robe" -> "nezumi"
      [] place_type = "dragons_jewel" -> "ryu"
      [] place_type = "swallows_cowry" -> "kai"
      [] OTHER -> "main"

\* C23: the asset name resolved for an address with a known place type is
\* tsukimi-<base>_<max(points, 1)>.mp3 for the listed base of the place type
\* and the current points, whatever their sign.
C23_AssetName ==
    \A a \in DOMAIN sound_map \cap DOMAIN location_place_types :
        sound_map[a] = [base |-> ListedBase(location_place_types[a]),
                        suffix |-> <<IF current_points > 1 THEN current_points ELSE 1>>]

\* ---------------------------------------------------------------------------
\* MoonlightUpdates of up to MaxMoonlights entries and the engine that reads
\* the published states
\* ---------------------------------------------------------------------------
MoonlightInputs == SeqsUpTo(MoonlightEntries, MaxMoonlights)

NextMoonlight ==
    \/ ScannerSetAddress
    \/ Connect(TRUE)
    \/ DeviceServiceStart(TRUE)
    \/ \E ms \in MoonlightInputs : MoonlightUpdate(ms)
    \/ ForwardSystemEnabled
    \/ \E in \in SeInputs : AudioLoop(in)

SpecMoonlight == Init /\ [][NextMoonlight]_vars

\* The entry names this node.
NamesSelf(moonlight) == moonlight.device = my_address \/ moonlight.address = my_address

\* C25: a MoonlightUpdate with an entry naming this node, received when the
\* address is known, publishes one state with the enabled value of such an
\* entry; every other MoonlightUpdate publishes nothing and leaves the
\* engine's enabled state as it is; nothing else publishes a state.
C25_PublishedOnlyForSelf ==
    /\ [][\A ms \in MoonlightInputs :
            MoonlightUpdate(ms) =>
                IF my_address # None /\ \E i \in 1..Len(ms) : NamesSelf(ms[i])
                THEN \E i \in 1..Len(ms) :
                        /\ NamesSelf(ms[i])
                        /\ system_enabled_ch' =
                              Append(system_enabled_ch,
                                     [enabled |-> ms[i].enabled, target_device_id |-> my_address])
                ELSE system_enabled_ch' = system_enabled_ch /\ system_enabled' = system_enabled]_vars
    /\ [][system_enabled_ch' # system_enabled_ch =>
            \E ms \in MoonlightInputs : MoonlightUpdate(ms)]_vars

\* A disable and then an enable were published, and the engine has read the
\* disable.
C25_Witness ==
    /\ Len(system_enabled_ch) = 2
    /\ ~system_enabled_ch[1].enabled
    /\ system_enabled_ch[2].enabled
    /\ system_enabled_ch[2].target_device_id = SelfAddress
    /\ ~system_enabled
    /\ audio_system_enabled_rx = 1

\* ---------------------------------------------------------------------------
\* Repeated downlink events: LocationUpdates of up to MaxLocations entries
\* and PointUpdates for this node
\* ---------------------------------------------------------------------------
RepeatLocationEntries == [address : BeaconAddresses, place_type : {"buddhas_bowl", "unknown"}]
RepeatLocations == SeqsUpTo(RepeatLocationEntries, MaxLocations)

NextRepeat ==
    \/ ScannerSetAddress
    \/ Connect(TRUE)
    \/ DeviceServiceStart(TRUE)
    \/ \E locations \in RepeatLocations : LocationUpdate(locations)
    \/ \E points \in PointValues : PointUpdate(SelfAddress, points)

SpecRepeat == Init /\ [][NextRepeat]_vars

\* C26: once a LocationUpdate has been applied, applying the same update
\* again, with the points as they are, gives the sound_map and the
\* location_place_types the first application left.
C26_LocationUpdateIdempotent ==
    [][\A locations \in RepeatLocations :
          (/\ last_location_update' = <<{locations[i].address : i \in 1..Len(locations)}>>
           /\ LocationUpdate(locations)) =>
              ApplyLocationUpdate(sound_map', location_place_types', locations,
                                  current_points')
                 = [sounds |-> sound_map', types |-> location_place_types']]_vars

\* An update of two addresses has been applied at points 2, after the
\* initial entry was dropped.
C26_Witness ==
    /\ last_location_update # <<>>
    /\ last_location_update[1] = BeaconAddresses
    /\ DOMAIN sound_map = BeaconAddresses
    /\ current_points = 2
    /\ \A a \in BeaconAddresses : sound_map[a].suffix = <<2>>

\* C27: a PointUpdate for this node that carries the points the node has
\* requests no SE and leaves sound_map, the points and points_initialized as
\* they are.
C27_SamePointsNoEffect ==
    [][(my_address # None /\ PointUpdate(my_address, current_points)) =>
          /\ se_rx' = se_rx
          /\ sound_map' = sound_map
          /\ current_points' = current_points
          /\ points_initialized' = points_initialized]_vars

\* A PointUpdate for this node has been received and changed nothing: it
\* carried the initial points, after a location was registered.
C27_Witness ==
    /\ self_point_update_seen
    /\ ~points_initialized
    /\ current_points = 0
    /\ DOMAIN location_place_types # {}

\* A Playing iteration with an active pipeline that receives no server time
\* and completes no switch, and after which the loop runs on.
PlaysWithoutSample ==
    /\ \E in \in DriftInputs : AudioLoop(in)
    /\ playback_state = "Playing"
    /\ system_enabled
    /\ time_sync_rx = <<>>
    /\ switch_rx = <<>>
    /\ IsSome(active)
    /\ IsSome(active')
    /\ audio_pc' = "running"

\* C28: a Playing iteration in which no server time was received leaves the
\* playback rate and the sync anchor (playback_start_time,
\* initial_server_time_ns) as they are.
C28_CorrectionPerSample ==
    [][PlaysWithoutSample =>
          /\ Unwrap(active').tempo = Unwrap(active).tempo
          /\ playback_start_time' = playback_start_time
          /\ initial_server_time_ns' = initial_server_time_ns]_vars

\* The music pipelines in the Playing state: the active one, the standby one,
\* the one a worker holds and the ones delivered and not yet promoted.
PlayingMusic ==
    (IF IsPlaying(active) THEN 1 ELSE 0) + (IF IsPlaying(standby) THEN 1 ELSE 0)
    + (IF IsPlaying(worker_next) THEN 1 ELSE 0)
    + Cardinality({i \in 1..Len(switch_rx) : IsPlaying(Some(switch_rx[i]))})

\* C30: the worker thread does not move the pipeline it prepares to Playing
\* and delivers it in Paused; at most one music pipeline is in Playing.
C30_OneMusicPlaying ==
    /\ ~IsPlaying(worker_next)
    /\ \A i \in 1..Len(switch_rx) : switch_rx[i].state = "Paused"
    /\ PlayingMusic <= 1

\* ---------------------------------------------------------------------------
\* The switch guard: the audio engine and its switch worker under a clock
\* that steps inside the guard window
\* ---------------------------------------------------------------------------
GuardTickMs == 200
MaxGuardTime == 600    \* the clock of SpecGuard stops here

NextGuard ==
    \/ ScannerSetAddress
    \/ Connect(TRUE)
    \/ TimeServiceStart(TRUE)
    \/ \E a \in AudioAddresses, r \in AudioRssis : ScannerSend(a, r)
    \/ ForwardDeviceInfo(MaxForwarded)
    \/ \E t \in DriftServerTimes : TimeSync(t)
    \/ \E in \in DriftInputs : AudioLoop(in)
    \/ \E ok \in BOOLEAN : WorkerBuild(ok)
    \/ \E reached \in BOOLEAN : WorkerPause(reached)
    \/ WorkerPlay
    \/ \E buffering \in BufferingOutcomes : WorkerFinish(buffering)
    \/ Tick(GuardTickMs, MaxGuardTime)

SpecGuard == Init /\ [][NextGuard]_vars

\* A Playing iteration with an active pipeline that starts while a switch is
\* under way or less than 400 ms after one was completed, and after which the
\* loop runs on.
PlaysInGuard ==
    /\ \E in \in DriftInputs : AudioLoop(in)
    /\ playback_state = "Playing"
    /\ system_enabled
    /\ IsSome(active)
    /\ \/ switching
       \/ IsSome(last_switch_end) /\ now - Unwrap(last_switch_end) < 400
    /\ IsSome(active')
    /\ audio_pc' = "running"

\* C29: while switching is true and during the 400 ms after a switch was
\* completed no drift correction is applied to the active pipeline: the
\* iteration seeks nothing, and either it leaves the active pipeline, its rate
\* and the sync anchor as they are, or it promotes the delivered pipeline as
\* delivered and anchors it at the promotion.
C29_NoCorrectionInGuard ==
    [][PlaysInGuard =>
          /\ seeked_to' = Nothing
          /\ IF switch_rx = <<>>
             THEN /\ active' = active
                  /\ playback_start_time' = playback_start_time
                  /\ initial_server_time_ns' = initial_server_time_ns
             ELSE /\ active' = Some(Head(switch_rx))
                  /\ playback_start_time' = now
                  /\ initial_server_time_ns' =
                        IF IsSome(last_server_time_ns') THEN Unwrap(last_server_time_ns')
                        ELSE initial_server_time_ns]_vars

\* 200 ms after a switch was completed a server time newer than the anchor has
\* been taken, and the promoted pipeline still has its rate and its anchor.
C29_Witness ==
    /\ playback_state = "Playing"
    /\ ~switching
    /\ IsSome(last_switch_end)
    /\ now - Unwrap(last_switch_end) = 200
    /\ IsSome(active)
    /\ IsSome(last_server_time_ns)
    /\ initial_server_time_ns # 0
    /\ Unwrap(last_server_time_ns) > initial_server_time_ns
    /\ playback_start_time = Unwrap(last_switch_end)

\* Every entry of sound_map is the resolution of its address's cached
\* place_type with the current points.
SoundMapResolved ==
    \A addr \in DOMAIN sound_map :
        /\ addr \in DOMAIN location_place_types
        /\ sound_map[addr] =
              get_sound_file_from_place_type_and_points(location_place_types[addr],
                                                        current_points)

\* C31: once a LocationUpdate or a points-changing PointUpdate has been
\* applied, in any order from the initial state, every sound_map entry equals
\* the asset name resolved from the cached place_type of its address and the
\* current points.
C31_SoundMapFollowsCache ==
    (last_location_update # <<>> \/ points_initialized) => SoundMapResolved

\* The same once a LocationUpdate has been applied.
SoundMapResolvedAfterLocationUpdate ==
    last_location_update # <<>> => SoundMapResolved

\* ---------------------------------------------------------------------------
\* The start without a server time: the audio engine and the time service
\* under a clock that passes SYNC_TIMEOUT; no beacon is observed, so no track
\* switch is requested
\* ---------------------------------------------------------------------------
SyncTickMs == 3000
MaxSyncTime == 6000    \* the clock of SpecFallback stops here

NextFallback ==
    \/ ScannerSetAddress
    \/ Connect(TRUE)
    \/ TimeServiceStart(TRUE)
    \/ \E t \in DriftServerTimes : TimeSync(t)
    \/ \E in \in DriftInputs : AudioLoop(in)
    \/ Tick(SyncTickMs, MaxSyncTime)

\* The loop of audio_main keeps iterating.
SpecFallback ==
    Init /\ [][NextFallback]_vars /\ WF_vars(\E in \in DriftInputs : AudioLoop(in))

\* The engine plays from the fallback start: the anchor server time is 0.
PlaysFromFallback ==
    /\ audio_pc = "running"
    /\ playback_state = "Playing"
    /\ IsSome(active)
    /\ initial_server_time_ns = 0

\* C32: when the engine plays from the SYNC_TIMEOUT fallback and a server
\* time arrives, a drift correction against it is eventually applied (the
\* anchor takes a server time), with no track switch.
C32_FallbackEventuallyCorrects ==
    [](PlaysFromFallback /\ time_sync_rx # <<>> => <>(~PlaysFromFallback))

\* While the engine plays from the fallback start and no switch completes, an
\* iteration leaves the anchor server time at 0 and the rate as it is.
FallbackNeverCorrects ==
    [][(/\ \E in \in DriftInputs : AudioLoop(in)
        /\ PlaysFromFallback
        /\ switch_rx = <<>>
        /\ IsSome(active')
        /\ playback_state' = "Playing") =>
           /\ initial_server_time_ns' = 0
           /\ Unwrap(active').tempo = Unwrap(active).tempo]_vars

\* The iteration reads the enable that follows a disable it has read before:
\* the engine is disabled and the next SystemEnabledState is enabled.
ReadsReenable ==
    /\ \E in \in AudioInputs : AudioLoop(in)
    /\ audio_pc = "running"
    /\ ~system_enabled
    /\ \E i \in 1..audio_system_enabled_rx : ~system_enabled_ch[i].enabled
    /\ audio_system_enabled_rx < Len(system_enabled_ch)
    /\ system_enabled_ch[audio_system_enabled_rx + 1].enabled

\* C33: after a disable followed by an enable the active pipeline is built
\* only from a server time received after the re-enable, or 5 s after it: the
\* iteration that reads the re-enable while no server time is queued has
\* neither, and builds no active pipeline.
C33_ReenableWaitsForSync ==
    [][(ReadsReenable /\ time_sync_rx = <<>>) =>
          (active' = Nothing /\ playback_state' = "WaitingForFirstSync")]_vars

\* The iteration that reads the re-enable takes no server time queued while
\* the engine was disabled.
ReenableDropsQueued ==
    [][(ReadsReenable /\ time_sync_rx # <<>>) =>
          (active' = Nothing /\ playback_state' = "WaitingForFirstSync")]_vars

\* An SE request of the interaction task for an observation above -45 dBm of
\* an address with an interactive place_type, with the SE file of that type.
ProximitySeWellFormed(e) ==
    /\ e.rssi > -45
    /\ \/ e.place_type = "fire_rat_robe" /\ e.file = "se-nezumi.mp3"
       \/ e.place_type = "buddhas_bowl" /\ e.file = "se-hotoke.mp3"

\* Every HTTP POST of the task directly follows the SE request of the same
\* crossing.
PostFollowsSe ==
    \A i \in 1..Len(interaction_events) :
        interaction_events[i].kind = "post" =>
            /\ i > 1
            /\ interaction_events[i - 1] =
                  [interaction_events[i] EXCEPT
                      !.kind = "se", !.file = interaction_events[i - 1].file]

\* C35 as stated: a proximity SE request is sent only for an observation above
\* -45 dBm whose previous observation of the same address was at or below
\* -45 dBm and whose address has an interactive place_type; the SE file is
\* the one of the place_type and the request precedes the HTTP POST.
C35_ProximitySeOnCrossing ==
    /\ \A i \in 1..Len(interaction_events) :
          interaction_events[i].kind = "se" =>
             /\ ProximitySeWellFormed(interaction_events[i])
             /\ interaction_events[i].seen_before
             /\ interaction_events[i].prev_rssi <= -45
    /\ PostFollowsSe

\* C35: the same, where an address observed for the first time counts as
\* coming from below the threshold.
C35_ProximitySeOnCrossingOrFirst ==
    /\ \A i \in 1..Len(interaction_events) :
          interaction_events[i].kind = "se" =>
             /\ ProximitySeWellFormed(interaction_events[i])
             /\ interaction_events[i].seen_before => interaction_events[i].prev_rssi <= -45
    /\ PostFollowsSe

\* An address observed at -50 dBm and then at -40 dBm got the SE of its
\* place_type, followed by the POST.
C35_Witness ==
    /\ Len(interaction_events) = 2
    /\ interaction_events[1].kind = "se"
    /\ interaction_events[1].seen_before
    /\ interaction_events[1].prev_rssi = -50
    /\ interaction_events[1].rssi = -40
    /\ interaction_events[1].file = "se-hotoke.mp3"
    /\ interaction_events[2].kind = "post"

\* ---------------------------------------------------------------------------
\* The two sources of server time: the TimeUpdate events of the device-info
\* downlink and the stream of the time service
\* ---------------------------------------------------------------------------
NextTimeUpdate ==
    \/ ScannerSetAddress
    \/ Connect(TRUE)
    \/ DeviceServiceStart(TRUE)
    \/ TimeServiceStart(TRUE)
    \/ \E t \in DriftServerTimes : TimeUpdate(t)
    \/ \E t \in DriftServerTimes : TimeSync(t)
    \/ \E locations \in RepeatLocations : LocationUpdate(locations)

SpecTimeUpdate == Init /\ [][NextTimeUpdate]_vars

\* C36: the elapsed_nanoseconds of every TimeUpdate received on the
\* device-info downlink is appended to the time_sync channel, in the order
\* received.
C36_TimeUpdateForwarded ==
    [][\A t \in DriftServerTimes :
          (Len(time_sync_rx) < MaxTimeSyncQueue /\ TimeUpdate(t)) =>
              time_sync_rx' = Append(time_sync_rx, t)]_vars

\* ---------------------------------------------------------------------------
\* Track switches to their end: the audio engine and its switch worker, where
\* a spawned worker thread runs to its end
\* ---------------------------------------------------------------------------
SpecSwitch ==
    /\ Init
    /\ [][NextDrift]_vars
    /\ WF_vars(\E ok \in BOOLEAN : WorkerBuild(ok))
    /\ WF_vars(\E reached \in BOOLEAN : WorkerPause(reached))
    /\ WF_vars(WorkerPlay)
    /\ WF_vars(\E buffering \in BufferingOutcomes : WorkerFinish(buffering))

\* C37: every track switch that is started is followed by switching = false
\* while the loop runs, whether the worker delivers the pipeline or fails: at
\* the latest once the worker thread has ended, switching is false or the
\* pipeline that makes the loop end the switch waits in switch_rx.
C37_SwitchEventuallyEnds ==
    [](switching => <>(~switching \/ audio_pc # "running" \/ switch_rx # <<>>))

\* A switch is under way and nothing is left to end it: no worker thread
\* runs and no pipeline waits in switch_rx.
SwitchOrphaned ==
    /\ audio_pc = "running"
    /\ switching
    /\ worker_pc = "idle"
    /\ switch_rx = <<>>

\* ---------------------------------------------------------------------------
\* The downlink loop against the engine's SE channel: point gains and enable
\* flags from the server, the audio engine draining se_rx while it is enabled
\* ---------------------------------------------------------------------------
NextBlock ==
    \/ ScannerSetAddress
    \/ Connect(TRUE)
    \/ DeviceServiceStart(TRUE)
    \/ \E points \in PointValues : PointUpdate(SelfAddress, points)
    \/ PointSeSendCompletes
    \/ \E ms \in AudioMoonlights : MoonlightUpdate(ms)
    \/ \E in \in DriftInputs : AudioLoop(in)

\* A send that can complete does.
SpecBlock == Init /\ [][NextBlock]_vars /\ WF_vars(PointSeSendCompletes)

\* The downlink loop waits in the send of a point-gain SE on the full channel
\* while the engine is disabled and has read every SystemEnabledState published.
BlockedWhileDisabled ==
    /\ session_pc = "send_se_point"
    /\ Len(se_rx) = 32
    /\ audio_pc = "running"
    /\ ~system_enabled
    /\ audio_system_enabled_rx = Len(system_enabled_ch)

\* C38: the downlink loop does not block for ever because the engine is
\* disabled: after any number of point gains it reads on, so that a following
\* MoonlightUpdate that enables this node is published.
C38_DownlinkNeverBlocks ==
    [](BlockedWhileDisabled => <>(session_pc = "recv"))

\* Once the downlink loop is blocked while the engine is disabled, no step
\* of the program changes that.
BlockedForEver == [][BlockedWhileDisabled => BlockedWhileDisabled']_vars

\* C39: is_se_playing is true only while an SE pipeline exists.
C39_SePlayingHasPipeline == is_se_playing => IsSome(se_pipeline)

\* An activation SE is pending while is_se_playing is set and no SE pipeline
\* exists whose end could clear it.
ActivationSeStuck ==
    /\ audio_pc = "running"
    /\ system_enabled
    /\ should_play_activation_se
    /\ is_se_playing
    /\ se_pipeline = Nothing
    /\ se_rx = <<>>

\* C40: whenever the engine is Playing with an active pipeline and no switch
\* is under way, the active pipeline plays the asset current_sound names.
C40_ActiveIsCurrentSound ==
    (/\ audio_pc = "running"
     /\ playback_state = "Playing"
     /\ IsSome(active)
     /\ ~switching) => Unwrap(active).sound = current_sound

\* After a completed switch away from the default track and a disable
\* followed by an enable, the engine plays the track switched to.
C40_Witness ==
    /\ audio_pc = "running"
    /\ playback_state = "Playing"
    /\ IsSome(active)
    /\ ~switching
    /\ IsSome(last_switch_end)
    /\ current_sound # default_sound
    /\ Unwrap(active).sound = current_sound
    /\ audio_system_enabled_rx >= 2
    /\ \E i \in 1..audio_system_enabled_rx : ~system_enabled_ch[i].enabled
    /\ switch_rx = <<>>
    /\ worker_pc = "idle"

====
